---- MODULE Spec2Model ----
(***************************************************************************)
(* Model of paasta_tools/util/config_loading.py: the system configuration  *)
(* loader (load_system_paasta_config and its lru_cache'd parser), the      *)
(* optional loader and the mandatory accessors of SystemPaastaConfig; the  *)
(* resolver of a service's instance configs, the enumeration of its        *)
(* instances with its time caches, and the checks of InstanceConfig.       *)
(***************************************************************************)
EXTENDS Integers, Sequences, FiniteSets, TLC

VARIABLES
    dirState,   \* state of the system config directory on disk
    files,      \* path under the directory -> file on disk (or NoFile)
    clock,      \* ticks with every change on disk: the next stat signature
    cache,      \* lru_cache of parse_system_paasta_config, least recent first
    lastOp,     \* what the last call did and returned
    held,       \* the SystemPaastaConfig an accessor is called on
    soa,        \* the service's directory under soa_dir: its config files
    now,        \* time.time(), in seconds
    tcache,     \* the entries of the time caches
    inst,       \* the InstanceConfig that is validated
    calls       \* the calls of the loader that are under way, by caller

vars == <<dirState, files, clock, cache, lastOp, held, soa, now, tcache, inst, calls>>

----------------------------------------------------------------------------
(* Bounds of the model *)

\* number of changes the environment makes to the directory
MaxChanges == 1

\* maxsize of functools.lru_cache() when called without arguments
LruMaxSize == 128

----------------------------------------------------------------------------
(* Nested mappings: a value is a scalar or a mapping of keys to values *)

EmptyMap == [k \in {} |-> 0]

Scalar(n) == [t |-> "s", v |-> n, m |-> EmptyMap]

Mapping(f) == [t |-> "m", v |-> 0, m |-> f]

One(k, val) == [j \in {k} |-> val]

\* the directory load_system_paasta_config is called on
PATH_TO_SYSTEM_PAASTA_CONFIG_DIR == "/etc/paasta"

\* the paths a file under the directory can have, in lexicographic order
PathOrder == <<"/etc/paasta/README", "/etc/paasta/a.json", "/etc/paasta/b.json">>

\* the paths among them that end in .json
JsonPaths == {"/etc/paasta/a.json", "/etc/paasta/b.json"}

Paths == {PathOrder[i] : i \in 1..Len(PathOrder)}

PathIndex(p) == CHOOSE i \in 1..Len(PathOrder) : PathOrder[i] = p

\* p < q as strings
PathLess(p, q) == PathIndex(p) < PathIndex(q)

\* what a fragment file can hold: text json.load rejects, or a JSON object
Malformed == [wellformed |-> FALSE, json |-> EmptyMap]

Json(f) == [wellformed |-> TRUE, json |-> f]

Contents ==
    { Malformed,
      Json(One("cluster", Scalar(1))),
      Json(One("cluster", Scalar(2))),
      Json(One("dashboard_links", Mapping(One("x", Scalar(1))))),
      Json(One("dashboard_links", Mapping(One("y", Scalar(1))))) }

\* a file: "ok" is readable; "noaccess" fails os.access(fn, os.R_OK);
\* "noopen" passes os.access but open() raises IOError
FileKinds == {"ok", "noaccess", "noopen"}

NoFile == [kind |-> "absent", content |-> Malformed, stat |-> 0]

File(kind, content, stat) == [kind |-> kind, content |-> content, stat |-> stat]

\* what the environment can put at a path; the content of a file that is
\* never read is immaterial
Writable ==
    {<<"ok", c>> : c \in Contents} \cup {<<"noaccess", Malformed>>, <<"noopen", Malformed>>}

DirStates == {"ok", "absent", "unreadable"}

----------------------------------------------------------------------------
(* Results and errors *)

NoConfig == [config_dict |-> EmptyMap, directory |-> "<none>"]

SystemPaastaConfig(config, directory) == [config_dict |-> config, directory |-> directory]

NoError == [type |-> "none", filename |-> "", key |-> ""]

Error(type, filename, key) == [type |-> type, filename |-> filename, key |-> key]

NoOp == [op |-> "none"]

\* None, the value of a key that a YAML file gives no value
Null == [t |-> "n", v |-> 0, m |-> EmptyMap]

\* the instance types, in the order the enumeration goes through them
INSTANCE_TYPES == <<"marathon", "adhoc", "tron">>

InstanceTypes == {INSTANCE_TYPES[i] : i \in 1..Len(INSTANCE_TYPES)}

\* a service directory without config files
NoSoa ==
    [user |-> [t \in InstanceTypes |-> EmptyMap],
     auto |-> [t \in InstanceTypes |-> EmptyMap],
     deploy |-> <<>>]

\* an InstanceConfig with an empty config_dict
NoInstance ==
    [cluster |-> "", instance |-> "", service |-> "", config_dict |-> EmptyMap]

\* the callers of the loader
Callers == {"c1", "c2"}

\* no call of the loader is under way
NoCalls == [c \in Callers |-> [pc |-> "idle"]]

----------------------------------------------------------------------------
(* deep_merge_dictionaries (paasta_tools/util/deep_merge.py) *)

\* a merge that takes a key both sides give as non-mappings for a duplicate
\* even when the two values are the same
RECURSIVE deep_merge_rejecting_equal(_, _, _)
deep_merge_rejecting_equal(overrides, defaults, allow_duplicate_keys) ==
    LET both == DOMAIN overrides \cap DOMAIN defaults
        nested(k) == overrides[k].t = "m" /\ defaults[k].t = "m"
        sub(k) == deep_merge_rejecting_equal(overrides[k].m, defaults[k].m,
                                             allow_duplicate_keys)
        clash(k) == IF nested(k) THEN ~sub(k).ok ELSE ~allow_duplicate_keys
        bad == {k \in both : clash(k)}
        first == CHOOSE k \in bad : TRUE
    IN  IF bad # {}
        THEN [ok |-> FALSE,
              key |-> IF nested(first) THEN sub(first).key ELSE first,
              m |-> EmptyMap]
        ELSE [ok |-> TRUE,
              key |-> "",
              m |-> [k \in DOMAIN overrides \cup DOMAIN defaults |->
                        IF k \in both
                        THEN IF nested(k) THEN Mapping(sub(k).m) ELSE overrides[k]
                        ELSE IF k \in DOMAIN overrides THEN overrides[k]
                        ELSE defaults[k]]]

\* Merges overrides into defaults, recursively through values that are
\* mappings on both sides.  A key both sides give as non-mappings with
\* different values is taken from overrides when allow_duplicate_keys, and is
\* a DuplicateKeyError naming the key otherwise.
RECURSIVE deep_merge_dictionaries(_, _, _)
deep_merge_dictionaries(overrides, defaults, allow_duplicate_keys) ==
    LET both == DOMAIN overrides \cap DOMAIN defaults
        nested(k) == overrides[k].t = "m" /\ defaults[k].t = "m"
        sub(k) == deep_merge_dictionaries(overrides[k].m, defaults[k].m,
                                          allow_duplicate_keys)
        clash(k) == IF nested(k)
                    THEN ~sub(k).ok
                    ELSE ~allow_duplicate_keys /\ overrides[k] # defaults[k]
        bad == {k \in both : clash(k)}
        first == CHOOSE k \in bad : TRUE
    IN  IF bad # {}
        THEN [ok |-> FALSE,
              key |-> IF nested(first) THEN sub(first).key ELSE first,
              m |-> EmptyMap]
        ELSE [ok |-> TRUE,
              key |-> "",
              m |-> [k \in DOMAIN overrides \cup DOMAIN defaults |->
                        IF k \in both
                        THEN IF nested(k) THEN Mapping(sub(k).m) ELSE overrides[k]
                        ELSE IF k \in DOMAIN overrides THEN overrides[k]
                        ELSE defaults[k]]]

----------------------------------------------------------------------------
(* The system configuration loader *)

\* fnmatch(fn, "*.json")
fnmatch(fn) == fn \in JsonPaths

\* get_readable_files_in_glob: the files under the directory that are
\* regular files, pass os.access(fn, os.R_OK) and match the glob, sorted
get_readable_files_in_glob ==
    LET found == {fn \in Paths : files[fn].kind \in {"ok", "noopen"} /\ fnmatch(fn)}
    IN  SelectSeq(PathOrder, LAMBDA fn : fn \in found)

SeqToSet(s) == {s[i] : i \in 1..Len(s)}

\* frozenset({(fn, os.stat(fn)) for fn in get_readable_files_in_glob(...)})
FileStats == {<<fn, files[fn].stat>> : fn \in SeqToSet(get_readable_files_in_glob)}

\* the orders in which iterating a frozenset can yield its elements
IterationOrders(file_stats) ==
    LET n == Cardinality(file_stats)
    IN  {o \in [1..n -> file_stats] : \A i, j \in 1..n : o[i] = o[j] => i = j}

\* ParseFragment merging with allow_duplicate_keys=True
ParseFragmentAllowDuplicates(filename, config) ==
    IF files[filename].kind # "ok"
    THEN [ok |-> FALSE, err |-> Error("IOError", filename, ""), config |-> EmptyMap]
    ELSE IF ~files[filename].content.wellformed
    THEN [ok |-> FALSE, err |-> Error("JSONDecodeError", "", ""), config |-> EmptyMap]
    ELSE [ok |-> TRUE, err |-> NoError,
          config |-> deep_merge_dictionaries(files[filename].content.json,
                                             config, TRUE).m]

\* one round of the loop of parse_system_paasta_config: open the file,
\* json.load it, and merge it over what was merged so far
ParseFragment(filename, config) ==
    IF files[filename].kind # "ok"
    THEN [ok |-> FALSE, err |-> Error("IOError", filename, ""), config |-> EmptyMap]
    ELSE IF ~files[filename].content.wellformed
    THEN [ok |-> FALSE, err |-> Error("JSONDecodeError", "", ""), config |-> EmptyMap]
    ELSE LET merged == deep_merge_dictionaries(files[filename].content.json,
                                               config, FALSE)
         IN  IF merged.ok
             THEN [ok |-> TRUE, err |-> NoError, config |-> merged.m]
             ELSE [ok |-> FALSE, err |-> Error("DuplicateKeyError", "", merged.key),
                   config |-> EmptyMap]

\* ParseLoop skipping a fragment that raises instead of giving up
RECURSIVE ParseLoopSkipsFailures(_, _, _, _)
ParseLoopSkipsFailures(order, i, config, opened) ==
    IF i > Len(order)
    THEN [ok |-> TRUE, err |-> NoError, config |-> config, opened |-> opened]
    ELSE LET filename == order[i][1]
             step == ParseFragment(filename, config)
         IN  ParseLoopSkipsFailures(order, i + 1,
                                    IF step.ok THEN step.config ELSE config,
                                    Append(opened, filename))

\* the body of parse_system_paasta_config from the i-th element of the
\* iteration on: the merged configuration, or the first exception raised
RECURSIVE ParseLoop(_, _, _, _)
ParseLoop(order, i, config, opened) ==
    IF i > Len(order)
    THEN [ok |-> TRUE, err |-> NoError, config |-> config, opened |-> opened]
    ELSE LET filename == order[i][1]
             step == ParseFragment(filename, config)
         IN  IF step.ok
             THEN ParseLoop(order, i + 1, step.config, Append(opened, filename))
             ELSE [ok |-> FALSE, err |-> step.err, config |-> EmptyMap,
                   opened |-> Append(opened, filename)]

\* a cache key that leaves the stat signatures out
CacheKeyWithoutStat(file_stats, path) == <<{fs[1] : fs \in file_stats}, path>>

\* the arguments of parse_system_paasta_config, which lru_cache keys on
CacheKey(file_stats, path) == <<file_stats, path>>

\* a cache that never finds an entry
CacheIndexNoCache(c, key) == {}

\* where the cache holds an entry for the key
CacheIndex(c, key) == {i \in 1..Len(c) : c[i].key = key}

Without(s, i) == [j \in 1..(Len(s) - 1) |-> IF j < i THEN s[j] ELSE s[j + 1]]

\* lru_cache: a hit moves the entry to the most recent end
CacheTouch(c, i) == Append(Without(c, i), c[i])

\* lru_cache: a miss stores the result and drops the least recent entry
\* when the cache is full
CacheStore(c, key, value) ==
    LET kept == IF Len(c) >= LruMaxSize THEN Tail(c) ELSE c
    IN  Append(kept, [key |-> key, value |-> value])

\* parse_system_paasta_config behind its lru_cache: the outcome of the call
\* and the cache after it.  An exception stores nothing.
parse_system_paasta_config(file_stats, path, order) ==
    LET key == CacheKey(file_stats, path)
        at == CacheIndex(cache, key)
    IN  IF at # {}
        THEN LET i == CHOOSE i \in at : TRUE
             IN  [ok |-> TRUE, err |-> NoError, result |-> cache[i].value,
                  opened |-> <<>>, hit |-> TRUE, cache |-> CacheTouch(cache, i)]
        ELSE LET parsed == ParseLoop(order, 1, EmptyMap, <<>>)
             IN  IF parsed.ok
                 THEN LET value == SystemPaastaConfig(parsed.config, path)
                      IN  [ok |-> TRUE, err |-> NoError, result |-> value,
                           opened |-> parsed.opened, hit |-> FALSE,
                           cache |-> CacheStore(cache, key, value)]
                 ELSE [ok |-> FALSE, err |-> parsed.err, result |-> NoConfig,
                       opened |-> parsed.opened, hit |-> FALSE, cache |-> cache]

\* no except clause: the IOError propagates
WrapIOErrorNot(err) == err

\* except IOError as e: raise PaastaNotConfiguredError(... e.filename ...);
\* any other exception propagates as it is
WrapIOError(err) ==
    IF err.type = "IOError"
    THEN Error("PaastaNotConfiguredError", err.filename, "")
    ELSE err

\* os.path.isdir(path)
isdir(path) == dirState # "absent"

\* the readability check left out
accessUnchecked(path) == TRUE

\* os.access(path, os.R_OK)
access(path) == dirState # "unreadable"

\* load_system_paasta_config(path): what the call returns or raises, the
\* files it opened, and the cache after it
load_system_paasta_config(path, order) ==
    IF ~isdir(path)
    THEN [ok |-> FALSE, err |-> Error("PaastaNotConfiguredError", "", ""),
          result |-> NoConfig, opened |-> <<>>, hit |-> FALSE, cache |-> cache,
          scanned |-> FALSE, key |-> {}]
    ELSE IF ~access(path)
    THEN [ok |-> FALSE, err |-> Error("PaastaNotConfiguredError", "", ""),
          result |-> NoConfig, opened |-> <<>>, hit |-> FALSE, cache |-> cache,
          scanned |-> FALSE, key |-> {}]
    ELSE LET file_stats == FileStats
             r == parse_system_paasta_config(file_stats, path, order)
         IN  [ok |-> r.ok, err |-> WrapIOError(r.err), result |-> r.result,
              opened |-> r.opened, hit |-> r.hit, cache |-> r.cache,
              scanned |-> TRUE, key |-> file_stats]

----------------------------------------------------------------------------
(* The accessors of SystemPaastaConfig that have no default value *)

\* try: return self.config_dict[key]
\* except KeyError: raise PaastaNotConfiguredError("Could not find <key> ...")
RequireKey(config, key) ==
    IF key \in DOMAIN config.config_dict
    THEN [ok |-> TRUE, err |-> NoError, value |-> config.config_dict[key]]
    ELSE [ok |-> FALSE, err |-> Error("PaastaNotConfiguredError", "", key),
          value |-> Scalar(0)]

\* return self.config_dict[key]
IndexKey(config, key) ==
    IF key \in DOMAIN config.config_dict
    THEN [ok |-> TRUE, err |-> NoError, value |-> config.config_dict[key]]
    ELSE [ok |-> FALSE, err |-> Error("KeyError", "", key), value |-> Scalar(0)]

get_zk_hosts(config) == RequireKey(config, "zookeeper")

get_system_docker_registry(config) == RequireKey(config, "docker_registry")

get_hacheck_sidecar_volumes(config) == RequireKey(config, "hacheck_sidecar_volumes")

get_volumes(config) == RequireKey(config, "volumes")

get_cluster(config) == RequireKey(config, "cluster")

get_dashboard_links(config) == IndexKey(config, "dashboard_links")

get_api_endpoints(config) == IndexKey(config, "api_endpoints")

get_log_writer(config) == RequireKey(config, "log_writer")

get_log_reader(config) == RequireKey(config, "log_reader")

\* the accessors that read their key without a default, and the key of each
MandatoryAccessors ==
    [get_zk_hosts |-> "zookeeper",
     get_system_docker_registry |-> "docker_registry",
     get_hacheck_sidecar_volumes |-> "hacheck_sidecar_volumes",
     get_volumes |-> "volumes",
     get_cluster |-> "cluster",
     get_dashboard_links |-> "dashboard_links",
     get_api_endpoints |-> "api_endpoints",
     get_log_writer |-> "log_writer",
     get_log_reader |-> "log_reader"]

CallAccessor(a, config) ==
    CASE a = "get_zk_hosts" -> get_zk_hosts(config)
      [] a = "get_system_docker_registry" -> get_system_docker_registry(config)
      [] a = "get_hacheck_sidecar_volumes" -> get_hacheck_sidecar_volumes(config)
      [] a = "get_volumes" -> get_volumes(config)
      [] a = "get_cluster" -> get_cluster(config)
      [] a = "get_dashboard_links" -> get_dashboard_links(config)
      [] a = "get_api_endpoints" -> get_api_endpoints(config)
      [] a = "get_log_writer" -> get_log_writer(config)
      [] a = "get_log_reader" -> get_log_reader(config)

\* a caller calls an accessor on the configuration it holds
Get ==
    \E a \in DOMAIN MandatoryAccessors :
        /\ lastOp' = [op |-> "get", accessor |-> a, key |-> MandatoryAccessors[a],
                      out |-> CallAccessor(a, held)]
        /\ UNCHANGED <<dirState, files, clock, cache, held, soa, now, tcache, inst, calls>>

----------------------------------------------------------------------------
(* Calls and their record *)

CacheKeys(c) == {c[i].key : i \in 1..Len(c)}

\* the contents on disk of the files a scan finds
Snapshot == [fn \in SeqToSet(get_readable_files_in_glob) |-> files[fn]]

\* the record of a call of load_system_paasta_config with outcome r
LoadRecord(r) ==
    [ok |-> r.ok, err |-> r.err, result |-> r.result, opened |-> r.opened,
     hit |-> r.hit, scanned |-> r.scanned, key |-> r.key,
     dir |-> dirState, snapshot |-> Snapshot, keysBefore |-> CacheKeys(cache)]

\* a caller calls load_system_paasta_config()
Load ==
    \E order \in IterationOrders(FileStats) :
        LET r == load_system_paasta_config(PATH_TO_SYSTEM_PAASTA_CONFIG_DIR, order)
        IN  /\ cache' = r.cache
            /\ lastOp' = [op |-> "load", load |-> LoadRecord(r),
                          ok |-> r.ok, err |-> r.err, result |-> r.result]
            /\ UNCHANGED <<dirState, files, clock, held, soa, now, tcache, inst, calls>>

\* except Exception: every failure of the load is swallowed
optionally_load_swallowing_all(r) ==
    IF ~r.ok
    THEN [ok |-> TRUE, err |-> NoError, result |-> SystemPaastaConfig(EmptyMap, "")]
    ELSE [ok |-> r.ok, err |-> r.err, result |-> r.result]

\* optionally_load_system_paasta_config(path): the load's result, or an
\* empty configuration when the load raises PaastaNotConfiguredError
optionally_load_system_paasta_config(r) ==
    IF ~r.ok /\ r.err.type = "PaastaNotConfiguredError"
    THEN [ok |-> TRUE, err |-> NoError, result |-> SystemPaastaConfig(EmptyMap, "")]
    ELSE [ok |-> r.ok, err |-> r.err, result |-> r.result]

\* a caller calls optionally_load_system_paasta_config()
OptionallyLoad ==
    \E order \in IterationOrders(FileStats) :
        LET r == load_system_paasta_config(PATH_TO_SYSTEM_PAASTA_CONFIG_DIR, order)
            o == optionally_load_system_paasta_config(r)
        IN  /\ cache' = r.cache
            /\ lastOp' = [op |-> "optload", load |-> LoadRecord(r),
                          ok |-> o.ok, err |-> o.err, result |-> o.result]
            /\ UNCHANGED <<dirState, files, clock, held, soa, now, tcache, inst, calls>>

----------------------------------------------------------------------------
(* The environment: the operator's changes to the directory *)

\* a *.json file is written (created or replaced); its stat signature is new
WriteFile ==
    \E fn \in JsonPaths, w \in Writable :
        /\ clock <= MaxChanges
        /\ files' = [files EXCEPT ![fn] = File(w[1], w[2], clock)]
        /\ clock' = clock + 1
        /\ UNCHANGED <<dirState, cache, lastOp, held, soa, now, tcache, inst, calls>>

\* a *.json file is removed
RemoveFile ==
    \E fn \in JsonPaths :
        /\ clock <= MaxChanges
        /\ files[fn] # NoFile
        /\ files' = [files EXCEPT ![fn] = NoFile]
        /\ clock' = clock + 1
        /\ UNCHANGED <<dirState, cache, lastOp, held, soa, now, tcache, inst, calls>>

\* the directory is removed, made unreadable, or put back
SetDir ==
    \E d \in DirStates \ {dirState} :
        /\ clock <= MaxChanges
        /\ dirState' = d
        /\ clock' = clock + 1
        /\ UNCHANGED <<files, cache, lastOp, held, soa, now, tcache, inst, calls>>

----------------------------------------------------------------------------
(* The specification of the loader *)

\* a file that is no *.json file (and no JSON) sits in the directory
InitialFiles ==
    {[fn \in Paths |-> IF fn \in JsonPaths THEN json[fn] ELSE File("ok", Malformed, 0)] :
        json \in [JsonPaths -> {NoFile} \cup {File(w[1], w[2], 0) : w \in Writable}]}

Init ==
    /\ dirState \in DirStates
    /\ files \in InitialFiles
    /\ clock = 1
    /\ calls = NoCalls
    /\ cache = <<>>
    /\ lastOp = NoOp
    /\ held = NoConfig
    /\ soa = NoSoa
    /\ now = 0
    /\ tcache = EmptyMap
    /\ inst = NoInstance

Next ==
    \/ Load
    \/ WriteFile
    \/ RemoveFile
    \/ SetDir

\* callers of load_system_paasta_config while the directory changes
Spec == Init /\ [][Next]_vars

NextOptional ==
    \/ OptionallyLoad
    \/ WriteFile
    \/ RemoveFile
    \/ SetDir

\* callers of optionally_load_system_paasta_config while the directory changes
SpecOptional == Init /\ [][NextOptional]_vars

\* the configurations a load can return, by the mandatory keys they hold
LoadedConfigs ==
    {SystemPaastaConfig([k \in keys |-> Scalar(1)], PATH_TO_SYSTEM_PAASTA_CONFIG_DIR) :
        keys \in SUBSET {MandatoryAccessors[a] : a \in DOMAIN MandatoryAccessors}}

InitAccessors ==
    /\ dirState = "ok"
    /\ files = [fn \in Paths |->
                    IF fn \in JsonPaths THEN NoFile ELSE File("ok", Malformed, 0)]
    /\ clock = 1
    /\ calls = NoCalls
    /\ cache = <<>>
    /\ lastOp = NoOp
    /\ held \in LoadedConfigs
    /\ soa = NoSoa
    /\ now = 0
    /\ tcache = EmptyMap
    /\ inst = NoInstance

NextAccessors == Get

\* accessor calls on a loaded configuration
SpecAccessors == InitAccessors /\ [][NextAccessors]_vars

TypeOK ==
    /\ dirState \in DirStates
    /\ clock \in 1..(MaxChanges + 1)
    /\ calls = NoCalls
    /\ Len(cache) <= LruMaxSize

----------------------------------------------------------------------------
(* What the claims speak of *)

\* the last call ran load_system_paasta_config
IsLoad == lastOp.op \in {"load", "optload"}

\* the fragment at fn in a scan's snapshot can be opened and parsed
Parses(snapshot, fn) == snapshot[fn].kind = "ok" /\ snapshot[fn].content.wellformed

\* two mappings give the same non-mapping leaf different values
RECURSIVE LeafClash(_, _)
LeafClash(m1, m2) ==
    \E k \in DOMAIN m1 \cap DOMAIN m2 :
        IF m1[k].t = "m" /\ m2[k].t = "m"
        THEN LeafClash(m1[k].m, m2[k].m)
        ELSE m1[k].t = "s" /\ m2[k].t = "s" /\ m1[k].v # m2[k].v

\* two mappings disagree somewhere: a leaf clash, or a mapping against a scalar
RECURSIVE Disagree(_, _)
Disagree(m1, m2) ==
    \E k \in DOMAIN m1 \cap DOMAIN m2 :
        IF m1[k].t = "m" /\ m2[k].t = "m"
        THEN Disagree(m1[k].m, m2[k].m)
        ELSE m1[k] # m2[k]

\* the keys at which two mappings disagree
RECURSIVE DisagreeKeys(_, _)
DisagreeKeys(m1, m2) ==
    UNION { IF m1[k].t = "m" /\ m2[k].t = "m"
            THEN DisagreeKeys(m1[k].m, m2[k].m)
            ELSE IF m1[k] # m2[k] THEN {k} ELSE {}
            : k \in DOMAIN m1 \cap DOMAIN m2 }

\* the keys at which the parsed fragment at fn disagrees with another one
CollidingKeys(snapshot, fn) ==
    UNION { DisagreeKeys(snapshot[fn].content.json, snapshot[q].content.json)
            : q \in {q \in DOMAIN snapshot \ {fn} : Parses(snapshot, q)} }

\* two mappings give the same scalar leaf the same value
RECURSIVE LeafShared(_, _)
LeafShared(m1, m2) ==
    \E k \in DOMAIN m1 \cap DOMAIN m2 :
        IF m1[k].t = "m" /\ m2[k].t = "m"
        THEN LeafShared(m1[k].m, m2[k].m)
        ELSE m1[k].t = "s" /\ m1[k] = m2[k]

\* every scalar leaf of m is in big, at the same place with the same value
RECURSIVE HoldsLeaves(_, _)
HoldsLeaves(big, m) ==
    \A k \in DOMAIN m :
        /\ k \in DOMAIN big
        /\ IF m[k].t = "m"
           THEN big[k].t = "m" /\ HoldsLeaves(big[k].m, m[k].m)
           ELSE big[k] = m[k]

\* the union of two mappings that do not disagree
RECURSIVE Union(_, _)
Union(m1, m2) ==
    [k \in DOMAIN m1 \cup DOMAIN m2 |->
        IF k \in DOMAIN m1 /\ k \in DOMAIN m2
        THEN IF m1[k].t = "m" THEN Mapping(Union(m1[k].m, m2[k].m)) ELSE m1[k]
        ELSE IF k \in DOMAIN m1 THEN m1[k] ELSE m2[k]]

\* the merge of the fragments of a snapshot, taken in lexicographic order
RECURSIVE UnionFrom(_, _)
UnionFrom(snapshot, i) ==
    IF i > Len(PathOrder) THEN EmptyMap
    ELSE IF PathOrder[i] \in DOMAIN snapshot
         THEN Union(snapshot[PathOrder[i]].content.json, UnionFrom(snapshot, i + 1))
         ELSE UnionFrom(snapshot, i + 1)

\* two fragments of the snapshot, both parsed, satisfy R
SomePair(snapshot, R(_, _)) ==
    \E p, q \in DOMAIN snapshot :
        /\ p # q
        /\ Parses(snapshot, p) /\ Parses(snapshot, q)
        /\ R(snapshot[p].content.json, snapshot[q].content.json)

\* some fragment of the snapshot cannot be opened, parsed or merged
Broken(snapshot) ==
    \/ \E fn \in DOMAIN snapshot : ~Parses(snapshot, fn)
    \/ SomePair(snapshot, Disagree)

Last(seq) == seq[Len(seq)]

----------------------------------------------------------------------------
(* Claims *)

C2_IdenticalValuesLoad ==
    (/\ IsLoad /\ lastOp.load.scanned
     /\ SomePair(lastOp.load.snapshot, LeafShared)
     /\ ~Broken(lastOp.load.snapshot))
        => /\ lastOp.load.ok
           /\ \A fn \in DOMAIN lastOp.load.snapshot :
                HoldsLeaves(lastOp.load.result.config_dict,
                            lastOp.load.snapshot[fn].content.json)

\* two fragments with the same cluster were merged (not served from the cache)
C2_Witness ==
    /\ lastOp.op = "load"
    /\ lastOp.load.ok /\ ~lastOp.load.hit
    /\ Len(lastOp.load.opened) = 2
    /\ SomePair(lastOp.load.snapshot, LeafShared)
    /\ "cluster" \in DOMAIN lastOp.load.result.config_dict

\* C3: on a cache miss the fragments are opened in lexicographic order of
\* their path.
C3_LexicographicOrder ==
    (IsLoad /\ lastOp.load.scanned /\ ~lastOp.load.hit)
        => \A i, j \in 1..Len(lastOp.load.opened) :
              i < j => PathLess(lastOp.load.opened[i], lastOp.load.opened[j])

\* C4: a load that follows a successful load, with the directory and every
\* fragment as the earlier load's scan found them, is a cache hit: it opens
\* no file and returns the earlier result.
C4_UnchangedDirectoryHitsCache ==
    [][(Load /\ IsLoad /\ lastOp.load.ok
            /\ dirState = "ok" /\ lastOp.load.snapshot = Snapshot)
        => (/\ lastOp'.load.hit
            /\ lastOp'.load.opened = <<>>
            /\ lastOp'.load.ok
            /\ lastOp'.load.result = lastOp.load.result)]_vars

\* a directory of two fragments was served from the cache
C4_Witness ==
    /\ IsLoad
    /\ lastOp.load.hit
    /\ lastOp.load.opened = <<>>
    /\ Cardinality(lastOp.load.key) = 2
    /\ lastOp.load.result.config_dict # EmptyMap

\* C5: every configuration a load returns is the merge of the contents the
\* fragments had when the load scanned them, whatever is cached under
\* earlier FileSetKeys.
C5_LoadReflectsCurrentContents ==
    (IsLoad /\ lastOp.load.ok)
        => lastOp.load.result =
              SystemPaastaConfig(UnionFrom(lastOp.load.snapshot, 1),
                                 PATH_TO_SYSTEM_PAASTA_CONFIG_DIR)

\* a load after a change of a fragment, with an earlier key of the same
\* paths still cached under another value
C5_Witness ==
    /\ IsLoad
    /\ lastOp.load.ok /\ ~lastOp.load.hit
    /\ \E i \in 1..Len(cache) :
          /\ cache[i].key \in lastOp.load.keysBefore
          /\ {fs[1] : fs \in cache[i].key[1]} = {fs[1] : fs \in lastOp.load.key}
          /\ cache[i].value # lastOp.load.result

\* C6: a load of a directory that does not exist or is not readable fails
\* with PaastaNotConfiguredError, opens no file and adds nothing to the cache.
C6_MissingDirectoryFails ==
    (IsLoad /\ lastOp.load.dir # "ok")
        => /\ ~lastOp.load.ok
           /\ lastOp.load.err.type = "PaastaNotConfiguredError"
           /\ lastOp.load.opened = <<>>
           /\ CacheKeys(cache) = lastOp.load.keysBefore

\* a load of an unreadable directory that holds a readable fragment
C6_Witness ==
    /\ lastOp.op = "load"
    /\ lastOp.load.dir = "unreadable"
    /\ \E fn \in JsonPaths : files[fn].kind = "ok"
    /\ ~lastOp.load.ok

\* C7: a load whose scan finds a fragment that cannot be opened, parsed or
\* merged fails, returns no configuration and stores nothing in the cache;
\* so every later load of the directory, while it stays as it is, fails too.
C7_FailedLoadIsWhole ==
    (IsLoad /\ lastOp.load.scanned /\ Broken(lastOp.load.snapshot))
        => /\ ~lastOp.load.ok
           /\ lastOp.load.result = NoConfig
           /\ CacheKeys(cache) = lastOp.load.keysBefore
           /\ CacheKey(lastOp.load.key, PATH_TO_SYSTEM_PAASTA_CONFIG_DIR)
                 \notin CacheKeys(cache)

\* a load failed on its second fragment, after merging the first
C7_Witness ==
    /\ IsLoad
    /\ lastOp.load.scanned
    /\ ~lastOp.load.ok
    /\ Len(lastOp.load.opened) = 2
    /\ ~Parses(lastOp.load.snapshot, Last(lastOp.load.opened))

\* the error types the core declares for its failures
CoreErrorTypes ==
    {"PaastaNotConfiguredError", "DuplicateKeyError", "NoConfigurationForServiceError",
     "InvalidJobNameError", "InvalidInstanceConfig"}

\* the last call failed on a fragment: the last file it opened
FragmentFailure == IsLoad /\ lastOp.load.scanned /\ ~lastOp.load.ok

Swallowed == lastOp.op = "optload" /\ ~lastOp.load.ok /\ lastOp.ok

\* C10 as stated: the optional load swallows an error only when the
\* directory is absent (read generously: absent or not readable).
C10_SwallowsOnlyAbsentDirectory ==
    Swallowed => lastOp.load.dir # "ok"

\* C10, amended: the optional load returns an empty configuration exactly
\* when the load raises PaastaNotConfiguredError, which is when the directory
\* is absent or unreadable or a fragment cannot be opened; a parse or
\* duplicate-key failure propagates, and a successful load's result is
\* returned as it is.
C10_SwallowsNotConfiguredOnly ==
    lastOp.op = "optload"
        => /\ lastOp.load.ok => (lastOp.ok /\ lastOp.result = lastOp.load.result)
           /\ Swallowed => lastOp.result = SystemPaastaConfig(EmptyMap, "")
           /\ Swallowed <=>
                \/ lastOp.load.dir # "ok"
                \/ /\ FragmentFailure
                   /\ lastOp.load.snapshot[Last(lastOp.load.opened)].kind = "noopen"
           /\ (FragmentFailure
                 /\ lastOp.load.snapshot[Last(lastOp.load.opened)].kind = "ok")
                => (~lastOp.ok /\ lastOp.err = lastOp.load.err)

\* an optional load of an existing directory let a duplicate-key failure through
C10_Witness ==
    /\ lastOp.op = "optload"
    /\ lastOp.load.dir = "ok"
    /\ ~lastOp.ok
    /\ lastOp.err.type = "DuplicateKeyError"

\* C9: an accessor without a default, called on a configuration that lacks
\* its key, fails with PaastaNotConfiguredError for that key.
C9_MandatoryAccessorsNotConfigured ==
    (lastOp.op = "get" /\ lastOp.key \notin DOMAIN held.config_dict)
        => /\ ~lastOp.out.ok
           /\ lastOp.out.err = Error("PaastaNotConfiguredError", "", lastOp.key)

----------------------------------------------------------------------------
(* The service's config files *)

\* the cluster whose config files the service's directory holds
CLUSTER == "norcal"

Clusters == {"norcal", "pnw"}

\* the subdirectory of the automatically generated defaults
AUTO_SOACONFIG_SUBDIR == "autotuned_defaults"

\* name.startswith("_"), over the names of the model
StartsWithUnderscore(name) == name \in {"_template", "_main"}

\* the order in which a mapping read from a file yields its keys: the files
\* of the model list their keys in this order
KeyOrder == <<"_template", "main", "canary", "job", "a", "b">>

\* the keys of a mapping, in iteration order
Keys(m) == SelectSeq(KeyOrder, LAMBDA k : k \in DOMAIN m)

\* f"{instance_type}-{cluster}", under subdir when it is not ""
ConfFile(subdir, instance_type, cluster) ==
    [subdir |-> subdir, instance_type |-> instance_type, cluster |-> cluster]

\* service_configuration_lib.read_extra_service_information(service,
\* extra_info, soa_dir, deepcopy=False): the mapping the file holds, and an
\* empty mapping when there is no such file
read_extra_service_information(s, extra_info) ==
    IF extra_info.cluster # CLUSTER \/ extra_info.instance_type \notin InstanceTypes
    THEN EmptyMap
    ELSE IF extra_info.subdir = AUTO_SOACONFIG_SUBDIR
         THEN s.auto[extra_info.instance_type]
         ELSE s.user[extra_info.instance_type]

\* filter_templates_from_config with the filter left out
filter_templates_keeping_all(config) ==
    config

\* filter_templates_from_config: the keys that do not start with "_"
filter_templates_from_config(config) ==
    [key \in {k \in DOMAIN config : ~StartsWithUnderscore(k)} |-> config[key]]

----------------------------------------------------------------------------
(* The resolver of instance configs *)

\* what load_system_paasta_config() gives a caller that holds no
\* configuration of its own: the configuration in force, or its error when
\* the system configuration cannot be loaded
LoadedSystemConfig ==
    IF held = NoConfig
    THEN [ok |-> FALSE, err |-> Error("PaastaNotConfiguredError", "", ""),
          result |-> NoConfig]
    ELSE [ok |-> TRUE, err |-> NoError, result |-> held]

\* SystemPaastaConfig.get_auto_config_instance_types_enabled
get_auto_config_instance_types_enabled(config) ==
    IF "auto_config_instance_types_enabled" \in DOMAIN config.config_dict
    THEN config.config_dict["auto_config_instance_types_enabled"].m
    ELSE EmptyMap

\* bool(value)
Truthy(value) ==
    CASE value.t = "m" -> DOMAIN value.m # {}
      [] value.t = "s" -> value.v # 0
      [] OTHER -> FALSE

\* load_service_instance_auto_configs reading the file whatever the flags say
load_service_instance_auto_configs_always(s, sys, instance_type, cluster) ==
    IF ~sys.ok
    THEN [ok |-> FALSE, err |-> sys.err, m |-> EmptyMap, read |-> FALSE]
    ELSE [ok |-> TRUE, err |-> NoError,
          m |-> read_extra_service_information(
                    s, ConfFile(AUTO_SOACONFIG_SUBDIR, instance_type, cluster)),
          read |-> TRUE]

\* load_service_instance_auto_configs: the automatically generated defaults
\* of every instance, read only when the instance type is enabled
load_service_instance_auto_configs(s, sys, instance_type, cluster) ==
    IF ~sys.ok
    THEN [ok |-> FALSE, err |-> sys.err, m |-> EmptyMap, read |-> FALSE]
    ELSE LET enabled_types == get_auto_config_instance_types_enabled(sys.result)
         IN  IF /\ instance_type \in DOMAIN enabled_types
                /\ Truthy(enabled_types[instance_type])
             THEN [ok |-> TRUE, err |-> NoError,
                   m |-> read_extra_service_information(
                             s, ConfFile(AUTO_SOACONFIG_SUBDIR, instance_type, cluster)),
                   read |-> TRUE]
             ELSE [ok |-> TRUE, err |-> NoError, m |-> EmptyMap, read |-> FALSE]

\* the merge with the two sides taken the other way round
merge_instance_config_defaults_win(user_config, auto_config) ==
    deep_merge_dictionaries(auto_config, user_config, TRUE).m

\* deep_merge_dictionaries(overrides=user_config, defaults=auto_config)
merge_instance_config(user_config, auto_config) ==
    deep_merge_dictionaries(user_config, auto_config, TRUE).m

\* auto_configs.get(instance, {})
AutoConfigOf(auto_configs, instance) ==
    IF instance \in DOMAIN auto_configs THEN auto_configs[instance].m ELSE EmptyMap

Resolved(result, read) ==
    [ok |-> TRUE, err |-> NoError, result |-> result, autoRead |-> read]

Rejected(err, read) ==
    [ok |-> FALSE, err |-> err, result |-> EmptyMap, autoRead |-> read]

\* load_service_instance_config: the config of one instance, its own values
\* over the automatically generated ones
load_service_instance_config(s, sys, instance, instance_type, cluster) ==
    IF StartsWithUnderscore(instance)
    THEN Rejected(Error("InvalidJobNameError", "", instance), FALSE)
    ELSE LET user == read_extra_service_information(
                         s, ConfFile("", instance_type, cluster))
             user_config == IF instance \in DOMAIN user THEN user[instance] ELSE Null
         IN  IF user_config = Null
             THEN Rejected(Error("NoConfigurationForServiceError", "", instance), FALSE)
             ELSE LET auto == load_service_instance_auto_configs(
                                  s, sys, instance_type, cluster)
                  IN  IF ~auto.ok
                      THEN Rejected(auto.err, FALSE)
                      ELSE Resolved(merge_instance_config(
                                        user_config.m, AutoConfigOf(auto.m, instance)),
                                    auto.read)

\* what merging a user config that is None does: deep_merge_dictionaries
\* raises on it, or takes the defaults alone
NoneMerges == {"raises", "defaults"}

\* load_service_instance_configs: the configs of all instances of the file
load_service_instance_configs(s, sys, instance_type, cluster, none_merge) ==
    LET user_configs == filter_templates_from_config(
                            read_extra_service_information(
                                s, ConfFile("", instance_type, cluster)))
        auto == load_service_instance_auto_configs(s, sys, instance_type, cluster)
    IN  IF ~auto.ok
        THEN Rejected(auto.err, FALSE)
        ELSE IF /\ \E name \in DOMAIN user_configs : user_configs[name] = Null
                /\ none_merge = "raises"
             THEN Rejected(Error("AttributeError", "", ""), auto.read)
             ELSE Resolved(
                      [name \in DOMAIN user_configs |->
                          IF user_configs[name] = Null
                          THEN AutoConfigOf(auto.m, name)
                          ELSE merge_instance_config(user_configs[name].m,
                                                     AutoConfigOf(auto.m, name))],
                      auto.read)

----------------------------------------------------------------------------
(* The enumeration of a service's instances *)

SERVICE == "svc"

\* an argument that is left out or passed as None
None == "<None>"

\* the cluster names, by the number the system configuration gives them
ClusterNames == <<"norcal", "pnw">>

RECURSIVE Flatten(_)
Flatten(ss) == IF ss = <<>> THEN <<>> ELSE Head(ss) \o Flatten(Tail(ss))

\* f"{job_name}.{name}"
TronName(job_name, name) == job_name \o "." \o name

\* job.get("actions", {})
TronActions(job) ==
    IF "actions" \in DOMAIN job.m THEN job.m["actions"] ELSE Mapping(EmptyMap)

Listed(list, scanned) ==
    [ok |-> TRUE, err |-> NoError, list |-> list, scanned |-> scanned]

NotListed(err, scanned) ==
    [ok |-> FALSE, err |-> err, list |-> <<>>, scanned |-> scanned]

\* an enumeration that takes the jobs of tron for instances
read_service_instance_names_flat(s, instance_type, cluster) ==
    LET names == Keys(filter_templates_from_config(
                          read_extra_service_information(
                              s, ConfFile("", instance_type, cluster))))
    IN  Listed([i \in 1..Len(names) |-> <<SERVICE, names[i]>>], <<instance_type>>)

\* read_service_instance_names: the (service, instance) pairs of one
\* instance type's file; for tron one pair per action of every job
read_service_instance_names(s, instance_type, cluster) ==
    LET config == filter_templates_from_config(
                      read_extra_service_information(
                          s, ConfFile("", instance_type, cluster)))
        names == Keys(config)
        actions(job_name) == Keys(TronActions(config[job_name]).m)
    IN  IF instance_type = "tron"
        THEN IF \E k \in DOMAIN config :
                    \/ config[k].t # "m"
                    \/ TronActions(config[k]).t # "m"
             THEN NotListed(Error("AttributeError", "", ""), <<instance_type>>)
             ELSE Listed(
                      Flatten([i \in 1..Len(names) |->
                                  [j \in 1..Len(actions(names[i])) |->
                                      <<SERVICE,
                                        TronName(names[i], actions(names[i])[j])>>]]),
                      <<instance_type>>)
        ELSE Listed([i \in 1..Len(names) |-> <<SERVICE, names[i]>>],
                    <<instance_type>>)

\* the loop of get_service_instance_list_no_cache over instance_types from
\* position i on
RECURSIVE ScanTypes(_, _, _, _)
ScanTypes(s, instance_types, cluster, i) ==
    IF i > Len(instance_types)
    THEN Listed(<<>>, <<>>)
    ELSE LET this == read_service_instance_names(s, instance_types[i], cluster)
             rest == ScanTypes(s, instance_types, cluster, i + 1)
         IN  IF ~this.ok
             THEN this
             ELSE IF ~rest.ok
                  THEN NotListed(rest.err, this.scanned \o rest.scanned)
                  ELSE Listed(this.list \o rest.list, this.scanned \o rest.scanned)

\* a scan that goes through every instance type whatever type is asked for
get_service_instance_list_scanning_all(s, sys, cluster, instance_type) ==
    ScanTypes(s, INSTANCE_TYPES, cluster, 1)

\* get_service_instance_list_no_cache: the pairs of one instance type when
\* a known type is given, and of every instance type otherwise; the cluster
\* is the system configuration's when none is given
get_service_instance_list_no_cache(s, sys, cluster, instance_type) ==
    LET instance_types == IF instance_type \in InstanceTypes
                          THEN <<instance_type>>
                          ELSE INSTANCE_TYPES
    IN  IF cluster = None
        THEN IF ~sys.ok
             THEN NotListed(sys.err, <<>>)
             ELSE IF ~get_cluster(sys.result).ok
                  THEN NotListed(get_cluster(sys.result).err, <<>>)
                  ELSE ScanTypes(s, instance_types,
                                 ClusterNames[get_cluster(sys.result).value.v], 1)
        ELSE ScanTypes(s, instance_types, cluster, 1)

----------------------------------------------------------------------------
(* Calls of the resolver *)

\* the instance names a caller asks for
InstanceNames == {"main", "canary", "_template", "_main"}

\* a caller calls load_service_instance_config
ResolveOne ==
    \E instance \in InstanceNames, instance_type \in InstanceTypes :
        /\ lastOp' = [op |-> "resolve", instance |-> instance,
                      instance_type |-> instance_type,
                      out |-> load_service_instance_config(
                                  soa, LoadedSystemConfig, instance,
                                  instance_type, CLUSTER)]
        /\ UNCHANGED <<dirState, files, clock, cache, held, soa, now, tcache, inst, calls>>

\* a caller calls load_service_instance_configs
ResolveAll ==
    \E instance_type \in InstanceTypes, none_merge \in NoneMerges :
        /\ lastOp' = [op |-> "resolve_all", instance |-> None,
                      instance_type |-> instance_type, none_merge |-> none_merge,
                      out |-> load_service_instance_configs(
                                  soa, LoadedSystemConfig, instance_type,
                                  CLUSTER, none_merge)]
        /\ UNCHANGED <<dirState, files, clock, cache, held, soa, now, tcache, inst, calls>>

\* a caller calls get_service_instance_list_no_cache
List ==
    \E cluster \in Clusters \cup {None}, instance_type \in InstanceTypes \cup {None, "bogus"} :
        /\ lastOp' = [op |-> "list", cluster |-> cluster,
                      instance_type |-> instance_type,
                      out |-> get_service_instance_list_no_cache(
                                  soa, LoadedSystemConfig, cluster, instance_type)]
        /\ UNCHANGED <<dirState, files, clock, cache, held, soa, now, tcache, inst, calls>>

\* the configs an instance has in its service's file
U1 == [cpus |-> Scalar(1), env |-> Mapping([A |-> Scalar(1)])]

U2 == [mem |-> Scalar(1), env |-> Mapping([A |-> Scalar(2), B |-> Scalar(1)])]

U3 == [env |-> Scalar(7)]

\* the configs an instance has in the automatically generated file
A1 == [cpus |-> Scalar(2), env |-> Mapping([A |-> Scalar(3), C |-> Scalar(1)])]

A2 == [disk |-> Scalar(1), env |-> Scalar(5)]

\* the mappings that give each key one of the values it can have, or lack it
Files(choices) ==
    UNION {[keys -> UNION {choices[k] : k \in keys}] : keys \in SUBSET DOMAIN choices}

FilesOf(choices) ==
    {f \in Files(choices) : \A k \in DOMAIN f : f[k] \in choices[k]}

UserFiles ==
    FilesOf([main |-> {Null, Mapping(EmptyMap), Mapping(U1), Mapping(U2), Mapping(U3)},
             canary |-> {Mapping(U1)},
             _template |-> {Mapping(U2)}])

AutoFiles ==
    FilesOf([main |-> {Mapping(A1), Mapping(A2)},
             canary |-> {Mapping(A1)}])

\* the system configurations in force: none that loads, or one with or
\* without the flags of the automatically generated defaults
SystemConfigs ==
    {NoConfig} \cup
    {SystemPaastaConfig(c, PATH_TO_SYSTEM_PAASTA_CONFIG_DIR) :
        c \in {[cluster |-> Scalar(1)],
               [auto_config_instance_types_enabled |-> Mapping(EmptyMap)],
               [cluster |-> Scalar(2),
                auto_config_instance_types_enabled |->
                    Mapping([marathon |-> Scalar(1)])],
               [cluster |-> Scalar(1),
                auto_config_instance_types_enabled |->
                    Mapping([marathon |-> Scalar(0), adhoc |-> Scalar(1)])]}}

InitResolver ==
    /\ dirState = "ok"
    /\ files = [fn \in Paths |->
                    IF fn \in JsonPaths THEN NoFile ELSE File("ok", Malformed, 0)]
    /\ clock = 1
    /\ calls = NoCalls
    /\ cache = <<>>
    /\ lastOp = NoOp
    /\ held \in SystemConfigs
    /\ \E um \in UserFiles, ua \in {[main |-> Mapping(U1)]},
          am \in AutoFiles, aa \in {EmptyMap, [main |-> Mapping(A1)]} :
            soa = [user |-> [t \in InstanceTypes |->
                                CASE t = "marathon" -> um
                                  [] t = "adhoc" -> ua
                                  [] OTHER -> EmptyMap],
                   auto |-> [t \in InstanceTypes |->
                                CASE t = "marathon" -> am
                                  [] t = "adhoc" -> aa
                                  [] OTHER -> EmptyMap],
                   deploy |-> <<>>]
    /\ now = 0
    /\ tcache = EmptyMap
    /\ inst = NoInstance

NextResolver ==
    \/ ResolveOne
    \/ ResolveAll
    \/ List

\* callers of the resolver and of the enumeration on a service's files
SpecResolver == InitResolver /\ [][NextResolver]_vars

----------------------------------------------------------------------------
(* What the claims on the resolver speak of *)

\* the keys of the configs of the model, at any depth
ConfigKeys == {"cpus", "mem", "disk", "env", "A", "B", "C"}

\* the paths into a config
ConfigPaths == {<<k>> : k \in ConfigKeys} \cup {<<k, j>> : k, j \in ConfigKeys}

Missing == [t |-> "missing", v |-> 0, m |-> EmptyMap]

\* the value a mapping holds at a path
RECURSIVE Lookup(_, _)
Lookup(m, path) ==
    IF Head(path) \notin DOMAIN m
    THEN Missing
    ELSE IF Len(path) = 1
         THEN m[Head(path)]
         ELSE IF m[Head(path)].t # "m"
              THEN Missing
              ELSE Lookup(m[Head(path)].m, Tail(path))

\* the mapping holds a value that is no mapping at the path
IsLeaf(m, path) == Lookup(m, path).t \in {"s", "n"}

ProperPrefixes(path) == {SubSeq(path, 1, n) : n \in 1..(Len(path) - 1)}

\* the mapping holds nothing at the path, nor a leaf above it
Untouched(m, path) ==
    /\ Lookup(m, path) = Missing
    /\ \A q \in ProperPrefixes(path) : ~IsLeaf(m, q)

\* the system configuration loads and enables the automatically generated
\* defaults of the instance type
AutoEnabled(instance_type) ==
    /\ held # NoConfig
    /\ "auto_config_instance_types_enabled" \in DOMAIN held.config_dict
    /\ LET flags == held.config_dict["auto_config_instance_types_enabled"].m
       IN  instance_type \in DOMAIN flags /\ flags[instance_type] = Scalar(1)

\* the file of the instance type gives the instance a config that is not None
HasConfig(instance_type, instance) ==
    /\ instance \in DOMAIN soa.user[instance_type]
    /\ soa.user[instance_type][instance] # Null

\* the config the instance has in the automatically generated file
AutoOf(instance_type, instance) ==
    IF instance \in DOMAIN soa.auto[instance_type]
    THEN soa.auto[instance_type][instance].m
    ELSE EmptyMap

\* C11: with the automatically generated defaults enabled for the instance
\* type, load_service_instance_config raises no error for an instance that
\* has a config, and its result holds the user's value at every leaf the
\* user config defines, the automatically generated value at every leaf that
\* only the automatically generated config defines, and no other leaf.
C11_UserOverridesAuto ==
    (/\ lastOp.op = "resolve"
     /\ ~StartsWithUnderscore(lastOp.instance)
     /\ HasConfig(lastOp.instance_type, lastOp.instance)
     /\ AutoEnabled(lastOp.instance_type))
        => /\ lastOp.out.ok
           /\ LET U == soa.user[lastOp.instance_type][lastOp.instance].m
                  A == AutoOf(lastOp.instance_type, lastOp.instance)
                  R == lastOp.out.result
              IN  \A p \in ConfigPaths :
                    /\ IsLeaf(U, p) => Lookup(R, p) = Lookup(U, p)
                    /\ (IsLeaf(A, p) /\ Untouched(U, p)) => Lookup(R, p) = Lookup(A, p)
                    /\ IsLeaf(R, p) => (IsLeaf(U, p) \/ IsLeaf(A, p))

\* an instance was resolved whose two configs give cpus and env.A different
\* values, and env.C only in the automatically generated one
C11_Witness ==
    /\ lastOp.op = "resolve"
    /\ lastOp.out.ok
    /\ AutoEnabled(lastOp.instance_type)
    /\ soa.user[lastOp.instance_type][lastOp.instance] = Mapping(U1)
    /\ AutoOf(lastOp.instance_type, lastOp.instance) = A1
    /\ lastOp.out.result =
         [cpus |-> Scalar(1),
          env |-> Mapping([A |-> Scalar(1), C |-> Scalar(1)])]

\* the service's files with the automatically generated file of an instance
\* type replaced
WithAuto(instance_type, file) ==
    [soa EXCEPT !.auto[instance_type] = file]

\* the last call of the resolver, made again on the files s
Again(s) ==
    IF lastOp.op = "resolve"
    THEN load_service_instance_config(s, LoadedSystemConfig, lastOp.instance,
                                      lastOp.instance_type, CLUSTER)
    ELSE load_service_instance_configs(s, LoadedSystemConfig, lastOp.instance_type,
                                       CLUSTER, lastOp.none_merge)

\* C12: with the flag of the instance type absent or false, the resolvers do
\* not read the automatically generated file, their outcome is the same
\* whatever that file holds, and a config they return is the user's own.
C12_DisabledIgnoresAuto ==
    (/\ lastOp.op \in {"resolve", "resolve_all"}
     /\ held # NoConfig
     /\ ~AutoEnabled(lastOp.instance_type))
        => /\ ~lastOp.out.autoRead
           /\ \A file \in AutoFiles \cup {EmptyMap} :
                Again(WithAuto(lastOp.instance_type, file)) = lastOp.out
           /\ (lastOp.op = "resolve" /\ lastOp.out.ok)
                => lastOp.out.result = soa.user[lastOp.instance_type][lastOp.instance].m
           /\ (lastOp.op = "resolve_all" /\ lastOp.out.ok)
                => \A name \in DOMAIN lastOp.out.result :
                      soa.user[lastOp.instance_type][name] # Null
                        => lastOp.out.result[name] = soa.user[lastOp.instance_type][name].m

\* an instance was resolved to its own config while the automatically
\* generated file, not enabled, gives it other values
C12_Witness ==
    /\ lastOp.op = "resolve"
    /\ lastOp.out.ok
    /\ held # NoConfig
    /\ ~AutoEnabled(lastOp.instance_type)
    /\ soa.user[lastOp.instance_type][lastOp.instance] = Mapping(U1)
    /\ AutoOf(lastOp.instance_type, lastOp.instance) = A1
    /\ lastOp.out.result = U1

\* what load_service_instance_config gives for an instance on the files and
\* the system configuration of the last call
Single(instance) ==
    load_service_instance_config(soa, LoadedSystemConfig, instance,
                                 lastOp.instance_type, CLUSTER)

\* the names a file or a caller can give an instance
AllNames == InstanceNames \cup DOMAIN soa.user[lastOp.instance_type]

\* C13: load_service_instance_configs returns a mapping whose keys are the
\* instance names that load_service_instance_config resolves, each with the
\* record that load_service_instance_config returns for it; it fails only
\* when load_service_instance_config resolves no instance.
C13_BulkMatchesSingle ==
    lastOp.op = "resolve_all"
        => IF lastOp.out.ok
           THEN /\ DOMAIN lastOp.out.result = {i \in AllNames : Single(i).ok}
                /\ \A i \in DOMAIN lastOp.out.result :
                      lastOp.out.result[i] = Single(i).result
           ELSE \A i \in AllNames : ~Single(i).ok

\* C14: no name that begins with "_" is resolved or enumerated:
\* load_service_instance_config rejects it with InvalidJobNameError whether
\* or not the file has the key, load_service_instance_configs returns no
\* entry for it, and get_service_instance_list_no_cache no pair; the other
\* keys of the file are all returned.
C14_TemplatesExcluded ==
    /\ (lastOp.op = "resolve" /\ StartsWithUnderscore(lastOp.instance))
          => (~lastOp.out.ok /\ lastOp.out.err.type = "InvalidJobNameError")
    /\ (lastOp.op = "resolve_all" /\ lastOp.out.ok)
          => DOMAIN lastOp.out.result =
               {k \in DOMAIN soa.user[lastOp.instance_type] : ~StartsWithUnderscore(k)}
    /\ (lastOp.op = "list" /\ lastOp.out.ok)
          => \A i \in 1..Len(lastOp.out.list) :
                ~StartsWithUnderscore(lastOp.out.list[i][2])
    /\ (lastOp.op = "list" /\ lastOp.out.ok /\ lastOp.cluster = CLUSTER
          /\ lastOp.instance_type \in InstanceTypes \ {"tron"})
          => {lastOp.out.list[i][2] : i \in 1..Len(lastOp.out.list)} =
               {k \in DOMAIN soa.user[lastOp.instance_type] : ~StartsWithUnderscore(k)}

\* a file with the keys _template and main was enumerated as main alone
C14_Witness ==
    /\ lastOp.op = "list"
    /\ lastOp.instance_type = "marathon"
    /\ DOMAIN soa.user["marathon"] = {"_template", "main"}
    /\ lastOp.out.ok
    /\ lastOp.out.list = << <<SERVICE, "main">> >>

----------------------------------------------------------------------------
(* The enumeration over the files of several instance types *)

\* what a tron file can hold: jobs with their actions, a job without
\* actions, a template, a job without a value
TronFiles ==
    { EmptyMap,
      [job |-> Mapping([actions |-> Mapping([a |-> Mapping(EmptyMap),
                                              b |-> Mapping(EmptyMap)])])],
      [job |-> Mapping(EmptyMap)],
      [_template |-> Mapping([actions |-> Mapping([a |-> Mapping(EmptyMap)])]),
       job |-> Mapping([actions |-> Mapping([a |-> Mapping(EmptyMap)])])],
      [job |-> Null] }

InitIndex ==
    /\ dirState = "ok"
    /\ files = [fn \in Paths |->
                    IF fn \in JsonPaths THEN NoFile ELSE File("ok", Malformed, 0)]
    /\ clock = 1
    /\ calls = NoCalls
    /\ cache = <<>>
    /\ lastOp = NoOp
    /\ held \in SystemConfigs
    /\ \E um \in {EmptyMap, [main |-> Mapping(U1)],
                  [_template |-> Mapping(U2), main |-> Mapping(U1),
                   canary |-> Mapping(U1)]},
          ua \in {EmptyMap, [main |-> Mapping(U1)], [canary |-> Mapping(U1)]},
          ut \in TronFiles :
            soa = [user |-> [t \in InstanceTypes |->
                                CASE t = "marathon" -> um
                                  [] t = "adhoc" -> ua
                                  [] OTHER -> ut],
                   auto |-> [t \in InstanceTypes |-> EmptyMap],
                   deploy |-> <<>>]
    /\ now = 0
    /\ tcache = EmptyMap
    /\ inst = NoInstance

NextIndex == List

\* callers of the enumeration on the files of all instance types
SpecIndex == InitIndex /\ [][NextIndex]_vars

\* the cluster the last enumeration is for
ListedCluster ==
    IF lastOp.cluster = None
    THEN ClusterNames[held.config_dict["cluster"].v]
    ELSE lastOp.cluster

\* the pairs of one instance type's file
PairsOf(instance_type) ==
    read_service_instance_names(soa, instance_type, ListedCluster).list

\* C15: get_service_instance_list_no_cache with a known instance type scans
\* that type's file alone and returns its pairs; with any other instance
\* type, left out or unknown, it scans every instance type and returns their
\* pairs concatenated in the order of INSTANCE_TYPES.
C15_ScansRequestedTypes ==
    lastOp.op = "list"
        => IF lastOp.instance_type \in InstanceTypes
           THEN /\ SeqToSet(lastOp.out.scanned) \subseteq {lastOp.instance_type}
                /\ lastOp.out.ok
                     => /\ lastOp.out.scanned = <<lastOp.instance_type>>
                        /\ lastOp.out.list = PairsOf(lastOp.instance_type)
           ELSE lastOp.out.ok
                     => /\ lastOp.out.scanned = INSTANCE_TYPES
                        /\ lastOp.out.list =
                             Flatten([i \in 1..Len(INSTANCE_TYPES) |->
                                        PairsOf(INSTANCE_TYPES[i])])

\* an enumeration without instance type returned the instance of the first
\* type's file before the actions of the tron job
C15_Witness ==
    /\ lastOp.op = "list"
    /\ lastOp.instance_type = None
    /\ lastOp.out.ok
    /\ lastOp.out.scanned = INSTANCE_TYPES
    /\ lastOp.out.list =
         << <<SERVICE, "main">>, <<SERVICE, "canary">>,
            <<SERVICE, "job.a">>, <<SERVICE, "job.b">> >>

----------------------------------------------------------------------------
(* The time caches (paasta_tools/util/cache.py) *)

\* the seconds the model's clock goes through
MaxTime == 6

\* ttl of the time cache of get_service_instance_list
LIST_TTL == 5

\* ttl of the time cache of validate_service_instance
VALIDATE_TTL == 60

\* what a time cache does with an entry that is exactly ttl seconds old
AtTtl == {"hit", "miss"}

\* a time cache that keeps nothing
TimeCacheHitNever(c, key, ttl, t, at_ttl) ==
    FALSE

\* a time cache whose entries do not expire
TimeCacheHitForever(c, key, ttl, t, at_ttl) ==
    key \in DOMAIN c

\* the cache holds an entry for the key that has not expired at time t
TimeCacheHit(c, key, ttl, t, at_ttl) ==
    /\ key \in DOMAIN c
    /\ \/ t - c[key].ts < ttl
       \/ t - c[key].ts = ttl /\ at_ttl = "hit"

TimeCacheStore(c, key, val, t) ==
    [k \in DOMAIN c \cup {key} |-> IF k = key THEN [val |-> val, ts |-> t] ELSE c[k]]

\* time_cache(ttl)(f)(*args) at time t, computed being what f(*args)
\* returns or raises: the entry of the key when it has not expired, and
\* otherwise computed, kept as the new entry unless f raised
time_cache(c, key, ttl, t, at_ttl, computed) ==
    IF TimeCacheHit(c, key, ttl, t, at_ttl)
    THEN [hit |-> TRUE, out |-> c[key].val, computedAt |-> c[key].ts, cache |-> c]
    ELSE [hit |-> FALSE, out |-> computed, computedAt |-> t,
          cache |-> IF computed.ok THEN TimeCacheStore(c, key, computed, t) ELSE c]

ListKey(cluster, instance_type) ==
    <<"get_service_instance_list", cluster, instance_type>>

\* an enumeration that is kept as long as a validation
get_service_instance_list_kept_long(c, s, sys, cluster, instance_type, t, at_ttl) ==
    time_cache(c, ListKey(cluster, instance_type), VALIDATE_TTL, t, at_ttl,
               get_service_instance_list_no_cache(s, sys, cluster, instance_type))

\* get_service_instance_list: get_service_instance_list_no_cache behind a
\* time cache of 5 seconds
get_service_instance_list(c, s, sys, cluster, instance_type, t, at_ttl) ==
    time_cache(c, ListKey(cluster, instance_type), LIST_TTL, t, at_ttl,
               get_service_instance_list_no_cache(s, sys, cluster, instance_type))

\* the age of the entry a call finds for its key, -1 when it finds none
EntryAge(c, key, t) == IF key \in DOMAIN c THEN t - c[key].ts ELSE -1

\* the arguments callers give get_service_instance_list
ListArgs == {<<CLUSTER, "marathon">>, <<None, None>>}

\* a caller calls get_service_instance_list with some of these arguments
CachedListOf(list_args) ==
    \E args \in list_args, at_ttl \in AtTtl :
        LET r == get_service_instance_list(tcache, soa, LoadedSystemConfig,
                                           args[1], args[2], now, at_ttl)
        IN  /\ tcache' = r.cache
            /\ lastOp' = [op |-> "cached_list", key |-> ListKey(args[1], args[2]),
                          cluster |-> args[1], instance_type |-> args[2],
                          at |-> now, hit |-> r.hit, computedAt |-> r.computedAt,
                          entryAge |-> EntryAge(tcache, ListKey(args[1], args[2]), now),
                          out |-> r.out]
            /\ UNCHANGED <<dirState, files, clock, cache, held, soa, now, inst, calls>>

\* a caller calls get_service_instance_list
CachedList == CachedListOf(ListArgs)

\* a second passes
Tick ==
    /\ now < MaxTime
    /\ now' = now + 1
    /\ UNCHANGED <<dirState, files, clock, cache, lastOp, held, soa, tcache, inst, calls>>

\* what the marathon file holds while the caches are in use
CachedFiles == {[main |-> Mapping(U1)], [main |-> Mapping(U1), canary |-> Mapping(U1)]}

\* the service's files with only a marathon file
OnlyMarathon(um) ==
    [user |-> [t \in InstanceTypes |-> IF t = "marathon" THEN um ELSE EmptyMap],
     auto |-> [t \in InstanceTypes |-> EmptyMap],
     deploy |-> <<>>]

\* the marathon file is rewritten
ChangeFile ==
    \E um \in CachedFiles \ {soa.user["marathon"]} :
        /\ soa' = OnlyMarathon(um)
        /\ UNCHANGED <<dirState, files, clock, cache, lastOp, held, now, tcache, inst, calls>>

InitCache ==
    /\ dirState = "ok"
    /\ files = [fn \in Paths |->
                    IF fn \in JsonPaths THEN NoFile ELSE File("ok", Malformed, 0)]
    /\ clock = 1
    /\ calls = NoCalls
    /\ cache = <<>>
    /\ lastOp = NoOp
    /\ held \in {NoConfig,
                 SystemPaastaConfig([cluster |-> Scalar(1)],
                                    PATH_TO_SYSTEM_PAASTA_CONFIG_DIR)}
    /\ \E um \in CachedFiles : soa = OnlyMarathon(um)
    /\ now = 0
    /\ tcache = EmptyMap
    /\ inst = NoInstance

NextCache ==
    \/ CachedList
    \/ Tick
    \/ ChangeFile

\* callers of get_service_instance_list while time passes and files change
SpecCache == InitCache /\ [][NextCache]_vars

----------------------------------------------------------------------------
(* What the claims on the cached enumeration speak of *)

\* the step is a call of get_service_instance_list
ListCall == lastOp'.op = "cached_list" /\ (lastOp' # lastOp \/ tcache' # tcache)

\* C16 as stated: a call of get_service_instance_list made less than 5
\* seconds after another with the same arguments returns the sequence that
\* call returned, from the cache.
C16_CallsWithinTtlAgree ==
    [][(/\ ListCall
        /\ lastOp.op = "cached_list"
        /\ lastOp.out.ok
        /\ lastOp'.key = lastOp.key
        /\ lastOp'.at - lastOp.at < LIST_TTL)
          => (lastOp'.hit /\ lastOp'.out = lastOp.out)]_vars

\* C16, amended: a call of get_service_instance_list made less than 5
\* seconds after the call that computed the entry of its arguments returns
\* that entry's sequence and leaves the caches as they are, whatever the
\* files hold by then; the entry a computing call keeps bears the time of
\* that call.
C16_WithinTtlOfComputationHits ==
    [][ListCall
         => /\ (/\ lastOp'.key \in DOMAIN tcache
                /\ now - tcache[lastOp'.key].ts < LIST_TTL)
                  => /\ lastOp'.hit
                     /\ lastOp'.out = tcache[lastOp'.key].val
                     /\ lastOp'.computedAt = tcache[lastOp'.key].ts
                     /\ tcache' = tcache
            /\ (~lastOp'.hit /\ lastOp'.out.ok)
                  => tcache'[lastOp'.key] = [val |-> lastOp'.out, ts |-> now]]_vars

\* a call returned the cached sequence although the files, changed since,
\* now give another one
C16_Witness ==
    /\ lastOp.op = "cached_list"
    /\ lastOp.hit
    /\ lastOp.at = now
    /\ lastOp.at - lastOp.computedAt < LIST_TTL
    /\ lastOp.out # get_service_instance_list_no_cache(
                        soa, LoadedSystemConfig, lastOp.cluster, lastOp.instance_type)

\* C17: get_service_instance_list returns no sequence computed more than 5
\* seconds before the call, and a call that finds the entry of its arguments
\* expired returns what get_service_instance_list_no_cache returns on the
\* files as they are and keeps it as the new entry.
C17_ReadThroughWithinTtl ==
    [][ListCall
         => /\ lastOp'.out.ok => lastOp'.at - lastOp'.computedAt <= LIST_TTL
            /\ lastOp'.entryAge > LIST_TTL
                  => /\ ~lastOp'.hit
                     /\ lastOp'.computedAt = now
                     /\ lastOp'.out = get_service_instance_list_no_cache(
                                          soa, LoadedSystemConfig,
                                          lastOp'.cluster, lastOp'.instance_type)
                     /\ lastOp'.out.ok
                          => tcache'[lastOp'.key] = [val |-> lastOp'.out, ts |-> now]]_vars

\* a call found an expired entry and replaced it with another sequence
C17_Witness ==
    /\ lastOp.op = "cached_list"
    /\ lastOp.entryAge > LIST_TTL
    /\ ~lastOp.hit
    /\ lastOp.out.ok
    /\ lastOp.at = now
    /\ tcache[lastOp.key] = [val |-> lastOp.out, ts |-> now]
    /\ Len(lastOp.out.list) = 2

----------------------------------------------------------------------------
(* validate_service_instance *)

\* max_suggestions of suggest_possibilities
MaxSuggestions == 3

\* the instance names of the model's files, in lexicographic order
NameOrder == <<"canary", "job.a", "job.b", "main">>

\* the instance names callers ask validate_service_instance for
Words == {"main", "canary", "mian", "job.a", "job.c", "zzz"}

\* 100 * difflib.SequenceMatcher(None, name, word).ratio(), rounded down
Ratio(word, name) ==
    CASE word = name -> 100
      [] {word, name} = {"main", "mian"} -> 75
      [] {word, name} \in {{"job.a", "job.b"}, {"job.a", "job.c"}, {"job.b", "job.c"}} -> 80
      [] {word, name} \in {{"main", "canary"}, {"mian", "canary"}} -> 40
      [] {word, name} \in {{"main", "job.a"}, {"mian", "job.a"}} -> 22
      [] {word, name} \in {{"canary", "job.a"}, {"canary", "job.c"}} -> 18
      [] OTHER -> 0

\* the cutoff of difflib.get_close_matches, times 100
Cutoff == 60

NameRank(name) == CHOOSE i \in 1..Len(NameOrder) : NameOrder[i] = name

\* (score, x) > (score, y) as heapq.nlargest compares the candidates
Closer(word, x, y) ==
    \/ Ratio(word, x) > Ratio(word, y)
    \/ Ratio(word, x) = Ratio(word, y) /\ NameRank(x) > NameRank(y)

\* difflib.get_close_matches(word, set(possibilities), n): the n closest of
\* the possibilities that reach the cutoff, the closest first
get_close_matches(word, possibilities, n) ==
    LET close == {x \in SeqToSet(possibilities) : Ratio(word, x) >= Cutoff}
        sorted == CHOOSE o \in [1..Cardinality(close) -> close] :
                      \A i, j \in 1..Cardinality(close) :
                          i < j => Closer(word, o[i], o[j])
    IN  SubSeq(sorted, 1, IF Cardinality(close) < n THEN Cardinality(close) ELSE n)

\* suggest_possibilities: the names its message offers, none when the
\* message is empty
suggest_possibilities(word, possibilities) ==
    get_close_matches(word, possibilities, MaxSuggestions)

Validated(instance_type, c) ==
    [ok |-> TRUE, err |-> NoError, instance_type |-> instance_type,
     suggestions |-> <<>>, cache |-> c]

NotValidated(err, suggestions, c) ==
    [ok |-> FALSE, err |-> err, instance_type |-> None,
     suggestions |-> suggestions, cache |-> c]

\* the names of a list of (service, instance) pairs
NamesOf(sis) == [i \in 1..Len(sis) |-> sis[i][2]]

\* a loop that returns the last instance type although the pair is nowhere
ValidateLoopAcceptingAll(c, s, sys, instance, cluster, t, at_ttl, i, possibilities) ==
    Validated(INSTANCE_TYPES[Len(INSTANCE_TYPES)], c)

\* the loop of validate_service_instance over INSTANCE_TYPES from position i
\* on, with the time caches c and the possibilities collected so far
RECURSIVE ValidateLoop(_, _, _, _, _, _, _, _, _)
ValidateLoop(c, s, sys, instance, cluster, t, at_ttl, i, possibilities) ==
    IF i > Len(INSTANCE_TYPES)
    THEN NotValidated(Error("NoConfigurationForServiceError", "", instance),
                      suggest_possibilities(instance, possibilities), c)
    ELSE LET r == get_service_instance_list(c, s, sys, cluster, INSTANCE_TYPES[i],
                                            t, at_ttl)
         IN  IF ~r.out.ok
             THEN NotValidated(r.out.err, <<>>, r.cache)
             ELSE IF <<SERVICE, instance>> \in SeqToSet(r.out.list)
                  THEN Validated(INSTANCE_TYPES[i], r.cache)
                  ELSE ValidateLoop(r.cache, s, sys, instance, cluster, t, at_ttl,
                                    i + 1, possibilities \o NamesOf(r.out.list))

ValidateKey(instance, cluster) == <<"validate_service_instance", instance, cluster>>

\* validate_service_instance: the loop behind a time cache of 60 seconds
validate_service_instance(c, s, sys, instance, cluster, t, at_ttl) ==
    LET key == ValidateKey(instance, cluster)
        body == ValidateLoop(c, s, sys, instance, cluster, t, at_ttl, 1, <<>>)
    IN  IF TimeCacheHit(c, key, VALIDATE_TTL, t, at_ttl)
        THEN time_cache(c, key, VALIDATE_TTL, t, at_ttl, c[key].val)
        ELSE time_cache(body.cache, key, VALIDATE_TTL, t, at_ttl,
                        [body EXCEPT !.cache = EmptyMap])

\* a caller calls validate_service_instance on one of these instances and
\* clusters
ValidateOf(instances, clusters) ==
    \E instance \in instances, cluster \in clusters, at_ttl \in AtTtl :
        LET r == validate_service_instance(tcache, soa, LoadedSystemConfig,
                                           instance, cluster, now, at_ttl)
        IN  /\ tcache' = r.cache
            /\ lastOp' = [op |-> "validate", instance |-> instance,
                          cluster |-> cluster, at |-> now, hit |-> r.hit,
                          computedAt |-> r.computedAt, out |-> r.out]
            /\ UNCHANGED <<dirState, files, clock, cache, held, soa, now, inst, calls>>

\* a caller calls validate_service_instance
Validate == ValidateOf(Words, Clusters)

InitValidate ==
    /\ dirState = "ok"
    /\ files = [fn \in Paths |->
                    IF fn \in JsonPaths THEN NoFile ELSE File("ok", Malformed, 0)]
    /\ clock = 1
    /\ calls = NoCalls
    /\ cache = <<>>
    /\ lastOp = NoOp
    /\ held = SystemPaastaConfig([cluster |-> Scalar(1)],
                                 PATH_TO_SYSTEM_PAASTA_CONFIG_DIR)
    /\ \E um \in {EmptyMap, [main |-> Mapping(U1)],
                  [_template |-> Mapping(U2), main |-> Mapping(U1),
                   canary |-> Mapping(U1)]},
          ua \in {EmptyMap, [main |-> Mapping(U1)], [canary |-> Mapping(U1)]},
          ut \in {f \in TronFiles : \A k \in DOMAIN f : f[k] # Null} :
            soa = [user |-> [t \in InstanceTypes |->
                                CASE t = "marathon" -> um
                                  [] t = "adhoc" -> ua
                                  [] OTHER -> ut],
                   auto |-> [t \in InstanceTypes |-> EmptyMap],
                   deploy |-> <<>>]
    /\ now = 0
    /\ tcache = EmptyMap
    /\ inst = NoInstance

NextValidate == Validate

\* callers of validate_service_instance on the files of all instance types
SpecValidate == InitValidate /\ [][NextValidate]_vars

----------------------------------------------------------------------------
(* What the claim on validate_service_instance speaks of *)

\* the instance names in the file of an instance type for a cluster:
\* its keys, and for tron the actions of its jobs, templates left out
Enumeration(instance_type, cluster) ==
    LET file == IF cluster = CLUSTER THEN soa.user[instance_type] ELSE EmptyMap
        keys == {k \in DOMAIN file : ~StartsWithUnderscore(k)}
        actions(k) == IF "actions" \in DOMAIN file[k].m
                      THEN DOMAIN file[k].m["actions"].m
                      ELSE {}
    IN  IF instance_type = "tron"
        THEN UNION {{TronName(k, a) : a \in actions(k)} : k \in keys}
        ELSE keys

\* the instance types whose enumeration holds the instance
Owners(instance, cluster) ==
    {i \in 1..Len(INSTANCE_TYPES) : instance \in Enumeration(INSTANCE_TYPES[i], cluster)}

C18_RefusedWithSuggestions ==
    /\ lastOp.op = "validate"
    /\ ~lastOp.out.ok
    /\ lastOp.instance = "job.c"
    /\ lastOp.out.suggestions = <<"job.b", "job.a">>

----------------------------------------------------------------------------
(* InstanceConfig and its checks *)

\* a string value
Str(s) == [t |-> "str", v |-> 0, m |-> EmptyMap, s |-> s]

\* d.get(key, default)
DictGet(d, key, default) == IF key \in DOMAIN d THEN d[key] ELSE default

\* isinstance(value, (float, int))
IsNumber(value) == value.t = "s"

\* the separator of cluster and instance in a branch name
SPACER == "."

\* get_paasta_branch
get_paasta_branch(cluster, instance) == cluster \o SPACER \o instance

\* template.format(cluster=..., instance=..., service=...), over the
\* deploy groups of the model
Format(template, cluster, instance, service) ==
    IF template = "{cluster}.{instance}"
    THEN cluster \o "." \o instance
    ELSE template

\* InstanceConfig.__init__: the config_dict with its deploy_group interpolated
InstanceConfig(cluster, instance, service, config_dict) ==
    [cluster |-> cluster, instance |-> instance, service |-> service,
     config_dict |->
        IF "deploy_group" \in DOMAIN config_dict /\ config_dict["deploy_group"] # Null
        THEN [config_dict EXCEPT !["deploy_group"] =
                 Str(Format(config_dict["deploy_group"].s, cluster, instance, service))]
        ELSE config_dict]

\* the pipeline steps that deploy nothing
DEPLOY_PIPELINE_NON_DEPLOY_STEPS == {"itest", "security-check", "push-to-registry"}

\* is_deploy_step
is_deploy_step(step) ==
    ~(step \in DEPLOY_PIPELINE_NON_DEPLOY_STEPS
        \/ step \in {"command-foo", "command-bar"})

\* the whole pipeline of deploy.yaml, the steps that deploy nothing included
get_pipeline_steps(s) == s.deploy

\* get_pipeline_deploy_groups: the deploy steps of the pipeline of deploy.yaml
get_pipeline_deploy_groups(s) == SelectSeq(s.deploy, is_deploy_step)

NoMsg == [text |-> "", arg |-> Null]

Passed == [passed |-> TRUE, msg |-> NoMsg]

Failed(text, arg) == [passed |-> FALSE, msg |-> [text |-> text, arg |-> arg]]

check_cpus(ic) ==
    LET cpus == DictGet(ic.config_dict, "cpus", Scalar(1))
    IN  IF cpus # Null /\ ~IsNumber(cpus)
        THEN Failed("The specified cpus value is not a valid float or int.", cpus)
        ELSE Passed

check_mem(ic) ==
    LET mem == DictGet(ic.config_dict, "mem", Scalar(4096))
    IN  IF mem # Null /\ ~IsNumber(mem)
        THEN Failed("The specified mem value is not a valid float or int.", mem)
        ELSE Passed

check_disk(ic) ==
    LET disk == DictGet(ic.config_dict, "disk", Scalar(1024))
    IN  IF disk # Null /\ ~IsNumber(disk)
        THEN Failed("The specified disk value is not a valid float or int.", disk)
        ELSE Passed

check_security(ic) ==
    LET security == DictGet(ic.config_dict, "security", Null)
        inbound_firewall == DictGet(security.m, "inbound_firewall", Null)
        outbound_firewall == DictGet(security.m, "outbound_firewall", Null)
        unknown_keys == DOMAIN security.m \ {"inbound_firewall", "outbound_firewall"}
    IN  IF security = Null
        THEN Passed
        ELSE IF inbound_firewall = Null /\ outbound_firewall = Null
        THEN Passed
        ELSE IF /\ inbound_firewall # Null
                /\ inbound_firewall \notin {Str("allow"), Str("reject")}
        THEN Failed("Unrecognized inbound_firewall value", inbound_firewall)
        ELSE IF /\ outbound_firewall # Null
                /\ outbound_firewall \notin {Str("block"), Str("monitor")}
        THEN Failed("Unrecognized outbound_firewall value", outbound_firewall)
        ELSE IF unknown_keys # {}
        THEN Failed("Unrecognized items in security dict of service config",
                    Mapping([k \in unknown_keys |-> Null]))
        ELSE Passed

check_dependencies_reference(ic) ==
    LET dependencies_reference == DictGet(ic.config_dict, "dependencies_reference", Null)
        dependencies == DictGet(ic.config_dict, "dependencies", Null)
    IN  IF dependencies_reference = Null
        THEN Passed
        ELSE IF dependencies = Null
        THEN Failed("dependencies_reference declared but no dependencies found",
                    dependencies_reference)
        ELSE IF dependencies_reference.s \notin DOMAIN dependencies.m
        THEN Failed("dependencies_reference not found in dependencies dictionary",
                    dependencies_reference)
        ELSE Passed

\* InstanceConfig.get_deploy_group
get_deploy_group(ic) ==
    DictGet(ic.config_dict, "deploy_group",
            Str(get_paasta_branch(ic.cluster, ic.instance)))

check_deploy_group(ic, s) ==
    LET deploy_group == get_deploy_group(ic)
    IN  IF /\ deploy_group # Null
           /\ deploy_group.s \notin SeqToSet(get_pipeline_deploy_groups(s))
        THEN Failed("uses deploy_group, but it is not deploy.yaml", deploy_group)
        ELSE Passed

\* the names check has a check method for
CheckMethods == {"cpus", "mem", "security", "dependencies_reference", "deploy_group"}

\* a check that passes every name it has no check method for
check_ignoring_unknown(ic, s, param) ==
    CASE param = "cpus" -> check_cpus(ic)
      [] param = "mem" -> check_mem(ic)
      [] param = "security" -> check_security(ic)
      [] param = "dependencies_reference" -> check_dependencies_reference(ic)
      [] param = "deploy_group" -> check_deploy_group(ic, s)
      [] OTHER -> Passed

\* InstanceConfig.check: the outcome of the check method of the name, and a
\* failure that names the parameter when there is none
check(ic, s, param) ==
    CASE param = "cpus" -> check_cpus(ic)
      [] param = "mem" -> check_mem(ic)
      [] param = "security" -> check_security(ic)
      [] param = "dependencies_reference" -> check_dependencies_reference(ic)
      [] param = "deploy_group" -> check_deploy_group(ic, s)
      [] OTHER -> Failed("Your service config specifies an unsupported parameter.",
                         Str(param))

\* a loop that returns at the first check that fails
ValidateFromStoppingAtFailure(ic, s, params, i) ==
    LET failing == {j \in i..Len(params) : ~check(ic, s, params[j]).passed}
    IN  IF failing = {}
        THEN <<>>
        ELSE <<check(ic, s, params[CHOOSE j \in failing : \A k \in failing : j <= k]).msg>>

\* the loop of InstanceConfig.validate over params from position i on
RECURSIVE ValidateFrom(_, _, _, _)
ValidateFrom(ic, s, params, i) ==
    IF i > Len(params)
    THEN <<>>
    ELSE LET c == check(ic, s, params[i])
         IN  (IF c.passed THEN <<>> ELSE <<c.msg>>) \o ValidateFrom(ic, s, params, i + 1)

\* InstanceConfig.validate: the messages of the checks that fail
validate(ic, s, params) == ValidateFrom(ic, s, params, 1)

----------------------------------------------------------------------------
(* Calls of InstanceConfig.validate *)

\* the longest list of check names a caller asks for
MaxParams == 3

\* the check names callers ask for
ParamNames == CheckMethods \cup {"disk", "bogus"}

ParamLists == UNION {[1..n -> ParamNames] : n \in 0..MaxParams}

\* a caller calls validate(params) on the instance config it holds
ValidateConfig ==
    /\ lastOp.op = "request"
    /\ lastOp' = [op |-> "validate_config", params |-> lastOp.params,
                  out |-> validate(inst, soa, lastOp.params)]
    /\ UNCHANGED <<dirState, files, clock, cache, held, soa, now, tcache, inst, calls>>

\* the config_dicts of the instance configs that are validated
ConfigDicts ==
    FilesOf([cpus |-> {Str("abc")},
             security |-> {Mapping([inbound_firewall |-> Str("open")])},
             dependencies_reference |-> {Str("main")},
             deploy_group |-> {Str("prod.main"), Str("prod.canary"),
                               Str("{cluster}.{instance}")}])

\* the pipeline of the service's deploy.yaml
Pipeline == <<"itest", "prod.main", "command-foo">>

InitConfig ==
    /\ dirState = "ok"
    /\ files = [fn \in Paths |->
                    IF fn \in JsonPaths THEN NoFile ELSE File("ok", Malformed, 0)]
    /\ clock = 1
    /\ calls = NoCalls
    /\ cache = <<>>
    /\ \E params \in ParamLists : lastOp = [op |-> "request", params |-> params]
    /\ held = NoConfig
    /\ soa = [NoSoa EXCEPT !.deploy = Pipeline]
    /\ now = 0
    /\ tcache = EmptyMap
    /\ \E config_dict \in ConfigDicts :
          inst = InstanceConfig(CLUSTER, "main", SERVICE, config_dict)

NextConfig == ValidateConfig

\* callers of InstanceConfig.validate
SpecConfig == InitConfig /\ [][NextConfig]_vars

----------------------------------------------------------------------------
(* What the claims on InstanceConfig.validate speak of *)

\* the positions of the requested names whose check fails
FailingAt(params) ==
    {i \in 1..Len(params) : ~check(inst, soa, params[i]).passed}

\* the j-th smallest member of a set of numbers
Nth(S, j) == CHOOSE i \in S : Cardinality({k \in S : k < i}) = j - 1

\* C19: validate(params) returns one message for every requested name whose
\* check fails, in the order of the request, each the message of that check,
\* and nothing for a name whose check passes; a failing check does not stop
\* the checks requested after it.
C19_OneMessagePerFailingCheck ==
    lastOp.op = "validate_config"
        => LET failing == FailingAt(lastOp.params)
           IN  /\ Len(lastOp.out) = Cardinality(failing)
               /\ \A j \in 1..Len(lastOp.out) :
                    lastOp.out[j] = check(inst, soa, lastOp.params[Nth(failing, j)]).msg

\* a failing check, a passing one and another failing one were requested,
\* and the two messages came back in that order
C19_Witness ==
    /\ lastOp.op = "validate_config"
    /\ lastOp.params = <<"cpus", "mem", "deploy_group">>
    /\ Len(lastOp.out) = 2
    /\ lastOp.out[1].arg = Str("abc")
    /\ lastOp.out[2].arg = Str("prod.canary")

\* C20: every requested name that check has no check method for yields a
\* message that names it, whatever is requested before or after it.
C20_UnknownCheckReported ==
    lastOp.op = "validate_config"
        => \A i \in 1..Len(lastOp.params) :
              lastOp.params[i] \notin CheckMethods
                => \E j \in 1..Len(lastOp.out) :
                      /\ lastOp.out[j] =
                           [text |-> "Your service config specifies an unsupported parameter.",
                            arg |-> Str(lastOp.params[i])]
                      /\ j = Cardinality({k \in FailingAt(lastOp.params) : k <= i})

\* an unknown name requested between a failing and a passing check was
\* reported after the failing check's message
C20_Witness ==
    /\ lastOp.op = "validate_config"
    /\ lastOp.params = <<"cpus", "bogus", "mem">>
    /\ Len(lastOp.out) = 2
    /\ lastOp.out[1].arg = Str("abc")
    /\ lastOp.out[2].arg = Str("bogus")

----------------------------------------------------------------------------
(* Calls of single checks *)

\* the values a numeric key is declared with: a number, a string, nothing
NumericValues == {Scalar(1), Str("abc"), Null}

NumericDicts ==
    FilesOf([cpus |-> NumericValues, mem |-> NumericValues, disk |-> NumericValues])

\* the security blocks: each firewall key unset, set to a word of its
\* vocabulary or to another word, with or without a key that is not a
\* firewall key
SecurityBlocks ==
    FilesOf([inbound_firewall |-> {Str("allow"), Str("reject"), Str("open"), Null},
             outbound_firewall |-> {Str("block"), Str("monitor"), Str("deny")},
             foo |-> {Scalar(1)}])

SecurityDicts ==
    {EmptyMap} \cup {[security |-> block] : block \in {Null} \cup {Mapping(b) : b \in SecurityBlocks}}

DeployDicts ==
    FilesOf([deploy_group |-> {Null, Str("prod.main"), Str("prod.canary"),
                               Str("{cluster}.{instance}"), Str("itest"),
                               Str("command-foo")}])

\* the pipelines of deploy.yaml
Pipelines ==
    {Pipeline, <<>>, <<"itest", "norcal.main", "security-check">>,
     <<"command-bar", "prod.canary", "command-foo", "prod.main">>}

\* the default of validate's params
DefaultParams == <<"cpus", "mem", "security", "dependencies_reference", "deploy_group">>

\* validate with its default, or with one name
ParamRequests == {DefaultParams} \cup {<<p>> : p \in ParamNames}

InitChecks ==
    /\ dirState = "ok"
    /\ files = [fn \in Paths |->
                    IF fn \in JsonPaths THEN NoFile ELSE File("ok", Malformed, 0)]
    /\ clock = 1
    /\ calls = NoCalls
    /\ cache = <<>>
    /\ \E params \in ParamRequests : lastOp = [op |-> "request", params |-> params]
    /\ held = NoConfig
    /\ now = 0
    /\ tcache = EmptyMap
    /\ \/ /\ soa = [NoSoa EXCEPT !.deploy = Pipeline]
          /\ \E config_dict \in NumericDicts \cup SecurityDicts :
                inst = InstanceConfig(CLUSTER, "main", SERVICE, config_dict)
       \/ /\ \E pipeline \in Pipelines : soa = [NoSoa EXCEPT !.deploy = pipeline]
          /\ \E config_dict \in DeployDicts, instance \in {"main", "canary"} :
                inst = InstanceConfig(CLUSTER, instance, SERVICE, config_dict)

NextChecks == ValidateConfig

\* callers of InstanceConfig.validate that ask for one check or for the default
SpecChecks == InitChecks /\ [][NextChecks]_vars

----------------------------------------------------------------------------
(* What the claims on the single checks speak of *)

\* validate was asked for the one check of this name
Asked(param) ==
    /\ lastOp.op = "validate_config"
    /\ lastOp.params = <<param>>

\* C21: asked through validate for the check cpus, mem or disk, the result
\* holds no violation when the record lacks the key or declares a number, and
\* holds a violation when it declares a string.
C21_NumericChecks ==
    \A param \in {"cpus", "mem", "disk"} :
        Asked(param)
            => LET d == inst.config_dict
               IN  /\ (param \notin DOMAIN d \/ IsNumber(d[param])) => lastOp.out = <<>>
                   /\ (param \in DOMAIN d /\ d[param].t = "str") => lastOp.out # <<>>

\* the firewall keys of a security block
FirewallKeys == {"inbound_firewall", "outbound_firewall"}

\* the security block of the held record, Null when it has none
SecurityBlock == DictGet(inst.config_dict, "security", Null)

\* the block sets the key to a value
IsSet(block, key) == key \in DOMAIN block.m /\ block.m[key] # Null

\* C22: asked through validate for the security check, the result holds no
\* violation exactly when the record has no security block, or the block
\* sets inbound_firewall (if at all) to allow or reject, outbound_firewall
\* (if at all) to block or monitor, and holds no key but these two; a block
\* with another key is rejected whatever its firewall keys are.
C22_SecurityClosedVocabulary ==
    Asked("security")
        => LET block == SecurityBlock
               accepted ==
                   \/ block = Null
                   \/ /\ IsSet(block, "inbound_firewall")
                            => block.m["inbound_firewall"] \in {Str("allow"), Str("reject")}
                      /\ IsSet(block, "outbound_firewall")
                            => block.m["outbound_firewall"] \in {Str("block"), Str("monitor")}
                      /\ DOMAIN block.m \subseteq FirewallKeys
           IN  (lastOp.out = <<>>) <=> accepted

\* the deploy group of the held record: its deploy_group key when it has one,
\* else its branch
EffectiveGroup ==
    IF "deploy_group" \in DOMAIN inst.config_dict
    THEN inst.config_dict["deploy_group"]
    ELSE Str(inst.cluster \o "." \o inst.instance)

\* the steps of the service's pipeline that deploy
GenuineSteps ==
    {soa.deploy[i] : i \in 1..Len(soa.deploy)}
        \ {"itest", "security-check", "push-to-registry", "command-foo", "command-bar"}

\* C23 as stated: the deploy_group check passes exactly when the deploy group is a deploy
\* step of the pipeline, and a violation names the deploy group
C23_DeployGroupInPipeline ==
    Asked("deploy_group")
        => /\ (lastOp.out = <<>>) <=> (\E step \in GenuineSteps : EffectiveGroup = Str(step))
           /\ lastOp.out # <<>> => lastOp.out[1].arg = EffectiveGroup

\* C23: asked through validate for the deploy_group check, the result holds
\* no violation exactly when the record's deploy group (its deploy_group key,
\* else its branch) is a step of the service's pipeline that deploys, or the
\* record declares deploy_group with no value; a violation names the deploy
\* group. With the pipeline itest, prod.main, command-foo the group prod.main
\* passes and prod.canary fails.
C23_DeclaredGroupInPipeline ==
    Asked("deploy_group")
        => /\ (lastOp.out = <<>>)
                <=> \/ EffectiveGroup = Null
                    \/ \E step \in GenuineSteps : EffectiveGroup = Str(step)
           /\ lastOp.out # <<>>
                => /\ Len(lastOp.out) = 1
                   /\ lastOp.out[1].arg = EffectiveGroup
           /\ soa.deploy = Pipeline
                => /\ EffectiveGroup = Str("prod.main") => lastOp.out = <<>>
                   /\ EffectiveGroup = Str("prod.canary") => lastOp.out # <<>>

\* with the pipeline itest, prod.main, command-foo a record of the group
\* prod.canary was refused by a violation that names prod.canary
C23_Witness ==
    /\ Asked("deploy_group")
    /\ soa.deploy = Pipeline
    /\ EffectiveGroup = Str("prod.canary")
    /\ Len(lastOp.out) = 1
    /\ lastOp.out[1].arg = Str("prod.canary")

\* a record whose group is a step that deploys nothing was refused
C23_NonDeployStepRefused ==
    /\ Asked("deploy_group")
    /\ EffectiveGroup \in {Str("itest"), Str("command-foo")}
    /\ EffectiveGroup.s \in SeqToSet(soa.deploy)
    /\ lastOp.out # <<>>

\* a record without deploy_group passed on its branch
C23_BranchPassed ==
    /\ Asked("deploy_group")
    /\ "deploy_group" \notin DOMAIN inst.config_dict
    /\ lastOp.out = <<>>

----------------------------------------------------------------------------
(* Records in the hands of their callers *)

\* The files are read with deepcopy=False: read_extra_service_information
\* hands out the very mappings the library keeps for the file, so soa is here
\* the data the library holds, and a value of a record that is one of its
\* objects changes it when it is changed in place.

\* what deep_merge_dictionaries does with a value of overrides that it puts
\* in its result: a copy of it, or the object itself
MergeSharing == {"copies", "shares"}

\* the keys of a merge result whose value is an object of overrides: the
\* mappings of overrides that are not merged into a mapping of defaults
SharedWithOverrides(overrides, defaults, sharing) ==
    IF sharing = "copies"
    THEN {}
    ELSE {k \in DOMAIN overrides :
            /\ overrides[k].t = "m"
            /\ ~(k \in DOMAIN defaults /\ defaults[k].t = "m")}

\* a single resolver that merges the user config it read without copying it
SharedBySingleUncopied(user_config, auto_config, sharing) ==
    SharedWithOverrides(user_config, auto_config, sharing)

\* load_service_instance_config: the keys of its record whose value is an
\* object of the library; none, it merges a deep copy of the user config
SharedBySingle(user_config, auto_config, sharing) ==
    {}

\* load_service_instance_configs: the same for one of its records; it merges
\* the user config as the library handed it out
SharedByBulk(user_config, auto_config, sharing) ==
    SharedWithOverrides(user_config, auto_config, sharing)

\* a record in the hands of a caller
Holder(instance, instance_type, config_dict, aliases) ==
    [cluster |-> CLUSTER, instance |-> instance, service |-> SERVICE,
     config_dict |-> config_dict, instance_type |-> instance_type,
     aliases |-> aliases]

\* the user config and the automatically generated config of an instance as
\* the library holds them
UserConfigOf(instance, instance_type) == soa.user[instance_type][instance].m

HeldAutoConfigOf(instance, instance_type) ==
    LET auto == load_service_instance_auto_configs(
                    soa, LoadedSystemConfig, instance_type, CLUSTER)
    IN  IF auto.ok THEN AutoConfigOf(auto.m, instance) ELSE EmptyMap

\* the first record every call of the single resolver returned
Remember(memo, key, out) ==
    IF key \in DOMAIN memo THEN memo ELSE (key :> out) @@ memo

\* a caller calls load_service_instance_config and keeps the record or drops it
TakeOne ==
    \E instance \in {"main", "canary"}, sharing \in MergeSharing, keep \in BOOLEAN :
        LET instance_type == "marathon"
            out == load_service_instance_config(
                       soa, LoadedSystemConfig, instance, instance_type, CLUSTER)
        IN  /\ lastOp' = [op |-> "resolve", instance |-> instance,
                          instance_type |-> instance_type, out |-> out]
            /\ tcache' = Remember(tcache, <<instance, instance_type>>, out)
            /\ inst' = IF out.ok /\ keep
                       THEN Holder(instance, instance_type, out.result,
                                   SharedBySingle(
                                       UserConfigOf(instance, instance_type),
                                       HeldAutoConfigOf(instance, instance_type),
                                       sharing))
                       ELSE inst
            /\ UNCHANGED <<dirState, files, clock, cache, held, soa, now, calls>>

\* a caller calls load_service_instance_configs and keeps one of its records
TakeAll ==
    \E instance \in {"main", "canary"}, sharing \in MergeSharing :
        LET instance_type == "marathon"
            out == load_service_instance_configs(
                       soa, LoadedSystemConfig, instance_type, CLUSTER, "raises")
        IN  /\ lastOp' = [op |-> "resolve_all", instance |-> None,
                          instance_type |-> instance_type, none_merge |-> "raises",
                          out |-> out]
            /\ inst' = IF out.ok /\ instance \in DOMAIN out.result
                       THEN Holder(instance, instance_type, out.result[instance],
                                   SharedByBulk(
                                       UserConfigOf(instance, instance_type),
                                       HeldAutoConfigOf(instance, instance_type),
                                       sharing))
                       ELSE inst
            /\ UNCHANGED <<dirState, files, clock, cache, held, soa, now, tcache, calls>>

\* the caller makes an InstanceConfig of the record it holds: __init__ puts
\* the interpolated deploy_group into the record
Construct ==
    /\ inst # NoInstance
    /\ inst' = [inst EXCEPT !.config_dict =
                    InstanceConfig(inst.cluster, inst.instance, inst.service,
                                   inst.config_dict).config_dict]
    /\ UNCHANGED <<dirState, files, clock, cache, lastOp, held, soa, now, tcache, calls>>

\* the value callers write into a record
Written == Scalar(9)

\* the caller changes in place a mapping that is a value of the record it
\* holds; a mapping that is an object of the library changes there as well
Mutate ==
    /\ inst # NoInstance
    /\ \E key \in DOMAIN inst.config_dict :
          /\ inst.config_dict[key].t = "m"
          /\ \E sub \in DOMAIN inst.config_dict[key].m :
                /\ inst' = [inst EXCEPT !.config_dict[key].m[sub] = Written]
                /\ soa' = IF key \in inst.aliases
                          THEN [soa EXCEPT
                                  !.user[inst.instance_type][inst.instance].m[key].m[sub]
                                      = Written]
                          ELSE soa
    /\ UNCHANGED <<dirState, files, clock, cache, lastOp, held, now, tcache, calls>>

\* a user config with a deploy group to interpolate
Ud == [deploy_group |-> Str("{cluster}.{instance}"), env |-> Mapping([A |-> Scalar(1)])]

InitOwnership ==
    /\ dirState = "ok"
    /\ files = [fn \in Paths |->
                    IF fn \in JsonPaths THEN NoFile ELSE File("ok", Malformed, 0)]
    /\ clock = 1
    /\ calls = NoCalls
    /\ cache = <<>>
    /\ lastOp = NoOp
    /\ held \in {SystemPaastaConfig(c, PATH_TO_SYSTEM_PAASTA_CONFIG_DIR) :
                    c \in {[cluster |-> Scalar(1)],
                           [auto_config_instance_types_enabled |->
                                Mapping([marathon |-> Scalar(1)])]}}
    /\ \E um \in FilesOf([main |-> {Mapping(U1), Mapping(Ud)},
                          canary |-> {Mapping(U1)}]),
          am \in FilesOf([main |-> {Mapping(A1), Mapping(A2)}]) :
            soa = [user |-> [t \in InstanceTypes |->
                                IF t = "marathon" THEN um ELSE EmptyMap],
                   auto |-> [t \in InstanceTypes |->
                                IF t = "marathon" THEN am ELSE EmptyMap],
                   deploy |-> <<>>]
    /\ now = 0
    /\ tcache = EmptyMap
    /\ inst = NoInstance

NextRepeat ==
    \/ TakeOne
    \/ Construct
    \/ Mutate

\* callers of the single resolver that change the records they got
SpecRepeat == InitOwnership /\ [][NextRepeat]_vars

NextOwnership ==
    \/ TakeOne
    \/ TakeAll
    \/ Construct
    \/ Mutate

\* callers of both resolvers that change the records they got
SpecOwnership == InitOwnership /\ [][NextOwnership]_vars

----------------------------------------------------------------------------
(* What the claims on repeated resolution speak of *)

C25_RecordsAreFresh == [][soa' = soa]_vars

----------------------------------------------------------------------------
(* Calls of the loader that run at the same time *)

\* A call of load_system_paasta_config is no single step: it scans the
\* directory and stats the files, looks the key up in the lru_cache, and on
\* a miss opens and merges the files one after the other before the result
\* is stored.  Other callers and the operator act in between.

\* a cache that stores a computed result next to an entry of the same key
CacheStoreAgain(c, key, value) ==
    CacheStore(c, key, value)

\* lru_cache after the call of the wrapped function: the result is stored
\* unless the key was stored while the function ran
CacheStoreComputed(c, key, value) ==
    IF CacheIndex(c, key) # {} THEN c ELSE CacheStore(c, key, value)

\* a call that has returned or raised
ReturnedCall(ok, err, result, file_stats, hit, at_scan) ==
    [pc |-> "returned", ok |-> ok, err |-> err, result |-> result,
     key |-> file_stats, hit |-> hit, atScan |-> at_scan]

\* a call inside parse_system_paasta_config, about to open order[i]
ParsingCall(file_stats, order, i, config, at_scan) ==
    [pc |-> "parsing", key |-> file_stats, order |-> order, i |-> i,
     config |-> config, atScan |-> at_scan]

\* what the files hold when they are scanned: their merge, or its failure
AtScan(order) ==
    LET parsed == ParseLoop(order, 1, EmptyMap, <<>>)
    IN  [ok |-> parsed.ok, config |-> parsed.config]

\* a caller calls load_system_paasta_config: the checks of the directory,
\* the scan with the stats, and the lookup in the lru_cache
BeginLoad(c) ==
    /\ calls[c].pc \in {"idle", "returned"}
    /\ LET path == PATH_TO_SYSTEM_PAASTA_CONFIG_DIR
           file_stats == FileStats
           at == CacheIndex(cache, CacheKey(file_stats, path))
       IN  IF ~isdir(path) \/ ~access(path)
           THEN /\ calls' = [calls EXCEPT ![c] =
                                ReturnedCall(FALSE, Error("PaastaNotConfiguredError", "", ""),
                                             NoConfig, {}, FALSE,
                                             [ok |-> FALSE, config |-> EmptyMap])]
                /\ cache' = cache
           ELSE IF at # {}
           THEN LET i == CHOOSE i \in at : TRUE
                    order == CHOOSE o \in IterationOrders(file_stats) : TRUE
                IN  /\ calls' = [calls EXCEPT ![c] =
                                    ReturnedCall(TRUE, NoError, cache[i].value,
                                                 file_stats, TRUE, AtScan(order))]
                    /\ cache' = CacheTouch(cache, i)
           ELSE \E order \in IterationOrders(file_stats) :
                    /\ calls' = [calls EXCEPT ![c] =
                                    ParsingCall(file_stats, order, 1, EmptyMap,
                                                AtScan(order))]
                    /\ cache' = cache
    /\ UNCHANGED <<dirState, files, clock, lastOp, held, soa, now, tcache, inst>>

\* the call opens the next file of its iteration, parses it and merges it
ReadFragment(c) ==
    /\ calls[c].pc = "parsing"
    /\ calls[c].i <= Len(calls[c].order)
    /\ LET call == calls[c]
           step == ParseFragment(call.order[call.i][1], call.config)
       IN  calls' = [calls EXCEPT ![c] =
                        IF step.ok
                        THEN ParsingCall(call.key, call.order, call.i + 1,
                                         step.config, call.atScan)
                        ELSE ReturnedCall(FALSE, WrapIOError(step.err), NoConfig,
                                          call.key, FALSE, call.atScan)]
    /\ UNCHANGED <<dirState, files, clock, cache, lastOp, held, soa, now, tcache, inst>>

\* the call has merged every file: the result goes to the cache and to the
\* caller
FinishLoad(c) ==
    /\ calls[c].pc = "parsing"
    /\ calls[c].i > Len(calls[c].order)
    /\ LET call == calls[c]
           path == PATH_TO_SYSTEM_PAASTA_CONFIG_DIR
           value == SystemPaastaConfig(call.config, path)
       IN  /\ cache' = CacheStoreComputed(cache, CacheKey(call.key, path), value)
           /\ calls' = [calls EXCEPT ![c] =
                            ReturnedCall(TRUE, NoError, value, call.key, FALSE,
                                         call.atScan)]
    /\ UNCHANGED <<dirState, files, clock, lastOp, held, soa, now, tcache, inst>>

\* the operator replaces a fragment by a file of other content in one step
\* (a rename onto it); the new file has a new stat signature
ReplaceFile ==
    \E fn \in JsonPaths, content \in Contents :
        /\ clock <= MaxChanges
        /\ files[fn].kind = "ok"
        /\ content.wellformed
        /\ content # files[fn].content
        /\ files' = [files EXCEPT ![fn] = File("ok", content, clock)]
        /\ clock' = clock + 1
        /\ UNCHANGED <<dirState, cache, lastOp, held, soa, now, tcache, inst, calls>>

InitConcurrent ==
    /\ dirState = "ok"
    /\ files \in {f \in InitialFiles :
                    \A fn \in JsonPaths : f[fn].kind \in {"absent", "ok", "noopen"}}
    /\ clock = 1
    /\ calls = NoCalls
    /\ cache = <<>>
    /\ lastOp = NoOp
    /\ held = NoConfig
    /\ soa = NoSoa
    /\ now = 0
    /\ tcache = EmptyMap
    /\ inst = NoInstance

NextConcurrent ==
    \/ \E c \in Callers : BeginLoad(c)
    \/ \E c \in Callers : ReadFragment(c)
    \/ \E c \in Callers : FinishLoad(c)

\* callers of load_system_paasta_config at the same time, the files at rest
SpecConcurrent == InitConcurrent /\ [][NextConcurrent]_vars

NextRace ==
    \/ \E c \in Callers : BeginLoad(c)
    \/ \E c \in Callers : ReadFragment(c)
    \/ \E c \in Callers : FinishLoad(c)
    \/ ReplaceFile

\* callers of load_system_paasta_config while the operator replaces files
SpecRace == InitConcurrent /\ [][NextRace]_vars

----------------------------------------------------------------------------
(* What the claims on concurrent loads speak of *)

\* the callers whose call has returned a configuration
Served == {c \in Callers : calls[c].pc = "returned" /\ calls[c].ok}

\* the merge of the files as they are on disk
OnDisk == AtScan(CHOOSE o \in IterationOrders(FileStats) : TRUE)

\* C26: the files at rest, the callers whose loads overlap get equal
\* outcomes: all fail or all return the same configuration, which is the
\* merge of all the files and never of a part of them; the cache holds no
\* two entries of one key, holds nothing but that merge, and holds it once
\* a caller was served.
C26_ConcurrentLoadsAgree ==
    /\ \A c1, c2 \in Callers :
          calls[c1].pc = "returned" /\ calls[c2].pc = "returned"
            => /\ calls[c1].ok = calls[c2].ok
               /\ calls[c1].result = calls[c2].result
    /\ \A c \in Served :
          /\ OnDisk.ok
          /\ calls[c].result =
                SystemPaastaConfig(OnDisk.config, PATH_TO_SYSTEM_PAASTA_CONFIG_DIR)
    /\ \A i, j \in 1..Len(cache) : cache[i].key = cache[j].key => i = j
    /\ \A i \in 1..Len(cache) :
          /\ cache[i].key = CacheKey(FileStats, PATH_TO_SYSTEM_PAASTA_CONFIG_DIR)
          /\ cache[i].value =
                SystemPaastaConfig(OnDisk.config, PATH_TO_SYSTEM_PAASTA_CONFIG_DIR)
    /\ Served # {} => Len(cache) = 1

\* both callers missed the cache, merged the two files on their own, and
\* were served; the cache holds one entry
C26_Witness ==
    /\ Served = Callers
    /\ \A c \in Callers : ~calls[c].hit /\ Cardinality(calls[c].key) = 2
    /\ Len(cache) = 1

\* C27: two loads whose scans gave the same key return equal configurations,
\* and every load returns the merge of the contents its scan saw, the
\* contents the stat signatures of its key describe, also when the operator
\* replaces a fragment between the scan and the reading.
C27_SameKeySameConfig ==
    /\ \A c1, c2 \in Served :
          calls[c1].key = calls[c2].key => calls[c1].result = calls[c2].result
    /\ \A c \in Served :
          /\ calls[c].atScan.ok
          /\ calls[c].result.config_dict = calls[c].atScan.config

----------------------------------------------------------------------------
(* Calls of read_service_instance_names *)

\* a caller calls read_service_instance_names
ReadNames ==
    \E instance_type \in InstanceTypes, cluster \in Clusters :
        /\ lastOp' = [op |-> "names", instance_type |-> instance_type,
                      cluster |-> cluster,
                      out |-> read_service_instance_names(soa, instance_type, cluster)]
        /\ UNCHANGED <<dirState, files, clock, cache, held, soa, now, tcache, inst, calls>>

\* the tron files: those of the index, one whose job declares actions
\* without a value, and one with a job of each kind
NamesFiles ==
    TronFiles \cup
    {[job |-> Mapping([actions |-> Null])],
     [job |-> Mapping([actions |-> Mapping([a |-> Mapping(EmptyMap)])]),
      main |-> Mapping(EmptyMap),
      canary |-> Mapping([actions |-> Mapping([a |-> Mapping(EmptyMap),
                                                b |-> Mapping(EmptyMap)])])]}

InitNames ==
    /\ dirState = "ok"
    /\ files = [fn \in Paths |->
                    IF fn \in JsonPaths THEN NoFile ELSE File("ok", Malformed, 0)]
    /\ clock = 1
    /\ calls = NoCalls
    /\ cache = <<>>
    /\ lastOp = NoOp
    /\ held = NoConfig
    /\ \E um \in UserFiles, ut \in NamesFiles :
            soa = [user |-> [t \in InstanceTypes |->
                                CASE t = "marathon" -> um
                                  [] t = "adhoc" -> EmptyMap
                                  [] OTHER -> ut],
                   auto |-> [t \in InstanceTypes |-> EmptyMap],
                   deploy |-> <<>>]
    /\ now = 0
    /\ tcache = EmptyMap
    /\ inst = NoInstance

NextNames == ReadNames

\* callers of read_service_instance_names on the files of a service
SpecNames == InitNames /\ [][NextNames]_vars

----------------------------------------------------------------------------
(* What the claim on read_service_instance_names speaks of *)

\* the pairs of the names of an instance type's file
ExpectedPairs == {<<SERVICE, n>> : n \in Enumeration(lastOp.instance_type, lastOp.cluster)}

\* every job of the tron file is a mapping whose actions, if it has any,
\* are a mapping
JobsAreMappings ==
    LET file == IF lastOp.cluster = CLUSTER THEN soa.user["tron"] ELSE EmptyMap
    IN  \A k \in DOMAIN file :
            ~StartsWithUnderscore(k)
                => /\ file[k].t = "m"
                   /\ "actions" \in DOMAIN file[k].m => file[k].m["actions"].t = "m"

C28_NullJobRaises ==
    /\ lastOp.op = "names"
    /\ soa.user["tron"] = [job |-> Null]
    /\ lastOp.cluster = CLUSTER
    /\ ~lastOp.out.ok

----------------------------------------------------------------------------
(* What the claim on enumerated and resolved instances speaks of *)

\* the pairs get_service_instance_list_no_cache returns for the instance
\* type of the last call and the cluster of the model
ListedPairs ==
    LET out == get_service_instance_list_no_cache(
                   soa, LoadedSystemConfig, CLUSTER, lastOp.instance_type)
    IN  IF out.ok THEN SeqToSet(out.list) ELSE {}

\* C29: load_service_instance_config on an instance that
\* get_service_instance_list_no_cache lists for an instance type other than
\* tron, the files being the same, fails with neither
\* NoConfigurationForServiceError nor InvalidJobNameError, also for an
\* instance whose key has an empty or no value in the file.
C29_ListedIsResolvable ==
    /\ lastOp.op = "resolve"
    /\ lastOp.instance_type # "tron"
    /\ <<SERVICE, lastOp.instance>> \in ListedPairs
    => lastOp.out.err.type \notin {"NoConfigurationForServiceError", "InvalidJobNameError"}

----------------------------------------------------------------------------
(* validate_service_instance while time passes and an instance is removed *)

\* the time up to which the clock runs
MaxNow == 67

\* the seconds that pass between two calls: less than the ttl of the
\* enumeration's time cache, or less than the ttl of the validation's
Delays == {4, 59}

\* time passes
Elapse ==
    \E d \in Delays :
        /\ now + d <= MaxNow
        /\ now' = now + d
        /\ UNCHANGED <<dirState, files, clock, cache, lastOp, held, soa, tcache, inst, calls>>

\* the service's files with their time of modification
FilesAt(um, mtime) == [mtime |-> mtime] @@ OnlyMarathon(um)

\* the latest time at which the instance is removed
MaxRemoval == 4

\* the instance canary is taken out of the marathon file, the one file
\* that held it
RemoveInstance ==
    /\ "canary" \in DOMAIN soa.user["marathon"]
    /\ now <= MaxRemoval
    /\ soa' = FilesAt([main |-> Mapping(U1)], now)
    /\ UNCHANGED <<dirState, files, clock, cache, lastOp, held, now, tcache, inst, calls>>

InitStale ==
    /\ dirState = "ok"
    /\ files = [fn \in Paths |->
                    IF fn \in JsonPaths THEN NoFile ELSE File("ok", Malformed, 0)]
    /\ clock = 1
    /\ calls = NoCalls
    /\ cache = <<>>
    /\ lastOp = NoOp
    /\ held = SystemPaastaConfig([cluster |-> Scalar(1)],
                                 PATH_TO_SYSTEM_PAASTA_CONFIG_DIR)
    /\ soa = FilesAt([main |-> Mapping(U1), canary |-> Mapping(U1)], 0)
    /\ now = 0
    /\ tcache = EmptyMap
    /\ inst = NoInstance

NextStale ==
    \/ ValidateOf({"canary"}, {CLUSTER})
    \/ CachedListOf({<<CLUSTER, "marathon">>})
    \/ Elapse
    \/ RemoveInstance

\* callers of validate_service_instance and of get_service_instance_list
\* before and after an instance is removed
SpecStale == InitStale /\ [][NextStale]_vars

----------------------------------------------------------------------------
(* What the claim on the age of a validation speaks of *)

\* the step is a call of validate_service_instance on the removed instance
\* that returns an instance type, the instance being in no file for more
\* than limit seconds
ValidatesRemoved(limit) ==
    /\ lastOp'.op = "validate"
    /\ lastOp' # lastOp \/ tcache' # tcache
    /\ lastOp'.at = now
    /\ lastOp'.out.ok
    /\ "canary" \notin DOMAIN soa.user["marathon"]
    /\ now - soa.mtime > limit

\* C30 as stated: validate_service_instance returns no instance type for an
\* instance that has been in no config file for more than 60 seconds.
C30_NotStaleAfterValidateTtl == [][~ValidatesRemoved(VALIDATE_TTL)]_vars

\* C30: validate_service_instance returns no instance type for an instance
\* that has been in no config file for more than 65 seconds, the ttl of its
\* own time cache and the ttl of the time cache of the enumeration it reads.
C30_NotStaleAfterBothTtls == [][~ValidatesRemoved(VALIDATE_TTL + LIST_TTL)]_vars

\* an instance type came back for the instance more than 60 seconds after
\* it was removed
C30_Witness ==
    /\ lastOp.op = "validate"
    /\ lastOp.instance = "canary"
    /\ lastOp.out.ok
    /\ "canary" \notin DOMAIN soa.user["marathon"]
    /\ lastOp.at - soa.mtime > VALIDATE_TTL

\* the instance was refused more than 65 seconds after it was removed, in
\* a call that found an entry of the validation in the cache
C30_RefusedAfterBothTtls ==
    /\ lastOp.op = "validate"
    /\ lastOp.instance = "canary"
    /\ ~lastOp.out.ok
    /\ lastOp.at - soa.mtime > VALIDATE_TTL + LIST_TTL
    /\ ValidateKey("canary", CLUSTER) \in DOMAIN tcache

====
